---------------------------- MODULE Spec2Model ----------------------------
(***************************************************************************)
(* A model of the HTTP/1.x message parser of src/http/parser/mod.rs.       *)
(*                                                                         *)
(* A connection is a record: the byte source it reads from, the reader     *)
(* instances (SPParser, EOLParser, HeaderKeyParser, HeaderValParser,       *)
(* BodyParser), the locals of read_req_line / read_status_line /           *)
(* read_headers / read_request / read_response, and the position (pc) of   *)
(* the thread inside them.  One action is one iteration of a reader loop:  *)
(* one stream.read_byte() and everything the code does until the next      *)
(* read_byte() (or until the orchestrator returns or panics).              *)
(*                                                                         *)
(* Bytes are integers 0..255, a String is the sequence of its UTF-8 bytes, *)
(* an Option is a sequence of length 0 (None) or 1 (Some).                 *)
(***************************************************************************)
EXTENDS Integers, Sequences, FiniteSets, TLC

VARIABLES conns

vars == <<conns>>

---------------------------------------------------------------------------
(* Tokens (parser/mod.rs lines 10-15). *)
CR == 13
LF == 10
SP == 32
COLON == 58
COMMA == 44
DQUOTE == 34

(* max_token_len of every delimiter-driven reader (set in each new()). *)
max_token_len == 4096

(* The body length read_request / read_response pass to read_body when only
   Transfer-Encoding is present. *)
transfer_encoding_len == 4096

(* isize::MAX, -isize::MIN and usize::MAX of a 64-bit target, as decimal
   digit strings (the numbers themselves exceed the checker's integers). *)
ISIZE_MAX_DIGITS == <<57, 50, 50, 51, 51, 55, 50, 48, 51, 54, 56, 53, 52, 55, 55, 53, 56, 48, 55>>
ISIZE_MIN_DIGITS == <<57, 50, 50, 51, 51, 55, 50, 48, 51, 54, 56, 53, 52, 55, 55, 53, 56, 48, 56>>
USIZE_MAX_DIGITS == <<49, 56, 52, 52, 54, 55, 52, 52, 48, 55, 51, 55, 48, 57, 53, 53, 49, 54, 49, 53>>

None == <<>>
Some(x) == <<x>>
is_none(o) == o = <<>>
unwrap(o) == o[1]

---------------------------------------------------------------------------
(* String::from_utf8: Ok exactly when the bytes are well-formed UTF-8. *)
IsCont(b) == b >= 128 /\ b <= 191

(* the length of the character a lead byte starts, 0 for a byte that can
   start none *)
CharLen(b) ==
  IF b < 128 THEN 1
  ELSE IF b >= 194 /\ b <= 223 THEN 2
  ELSE IF b >= 224 /\ b <= 239 THEN 3
  ELSE IF b >= 240 /\ b <= 244 THEN 4
  ELSE 0

(* the character starting at position i is complete and well-formed *)
CharAt(s, i) ==
  LET b == s[i]
      n == Len(s)
  IN CASE b < 128 -> TRUE
       [] b >= 194 /\ b <= 223 -> i + 1 <= n /\ IsCont(s[i + 1])
       [] b = 224 ->
            i + 2 <= n /\ s[i + 1] >= 160 /\ s[i + 1] <= 191 /\ IsCont(s[i + 2])
       [] (b >= 225 /\ b <= 236) \/ b = 238 \/ b = 239 ->
            i + 2 <= n /\ IsCont(s[i + 1]) /\ IsCont(s[i + 2])
       [] b = 237 ->
            i + 2 <= n /\ s[i + 1] >= 128 /\ s[i + 1] <= 159 /\ IsCont(s[i + 2])
       [] b = 240 ->
            i + 3 <= n /\ s[i + 1] >= 144 /\ s[i + 1] <= 191
            /\ IsCont(s[i + 2]) /\ IsCont(s[i + 3])
       [] b >= 241 /\ b <= 243 ->
            i + 3 <= n /\ IsCont(s[i + 1]) /\ IsCont(s[i + 2]) /\ IsCont(s[i + 3])
       [] b = 244 ->
            i + 3 <= n /\ s[i + 1] >= 128 /\ s[i + 1] <= 143
            /\ IsCont(s[i + 2]) /\ IsCont(s[i + 3])
       [] OTHER -> FALSE

(* s from position i on is a sequence of well-formed characters: every byte
   that is not a continuation byte starts one, and every continuation byte
   belongs to the character started by the nearest such byte before it. *)
Utf8From(s, i) ==
  \A j \in i..Len(s) :
    IF IsCont(s[j])
    THEN \E k \in (IF j - 3 > i THEN j - 3 ELSE i)..(j - 1) :
           /\ ~IsCont(s[k])
           /\ CharLen(s[k]) > j - k
           /\ \A m \in (k + 1)..j : IsCont(s[m])
    ELSE CharAt(s, j)

from_utf8(bytes) == IF Utf8From(bytes, 1) THEN Some(bytes) ELSE None

(* String::from_utf8(..).unwrap_or(String::new()) *)
from_utf8_or_empty(bytes) == IF Utf8From(bytes, 1) THEN bytes ELSE <<>>

(* str::trim: strips the characters with the White_Space property from both
   ends.  WsAtStart / WsAtEnd give the byte length of such a character at
   the start / the end of a well-formed string, 0 when there is none. *)
IsAsciiWs(b) == (b >= 9 /\ b <= 13) \/ b = 32

IsWs2(a, b) == a = 194 /\ (b = 133 \/ b = 160)

IsWs3(a, b, c) ==
  \/ a = 225 /\ b = 154 /\ c = 128
  \/ a = 226 /\ b = 128 /\ ((c >= 128 /\ c <= 138) \/ c = 168 \/ c = 169 \/ c = 175)
  \/ a = 226 /\ b = 129 /\ c = 159
  \/ a = 227 /\ b = 128 /\ c = 128

WsAtStart(s) ==
  LET n == Len(s)
  IN IF n >= 1 /\ IsAsciiWs(s[1]) THEN 1
     ELSE IF n >= 2 /\ IsWs2(s[1], s[2]) THEN 2
     ELSE IF n >= 3 /\ IsWs3(s[1], s[2], s[3]) THEN 3
     ELSE 0

WsAtEnd(s) ==
  LET n == Len(s)
  IN IF n >= 1 /\ IsAsciiWs(s[n]) THEN 1
     ELSE IF n >= 2 /\ IsWs2(s[n - 1], s[n]) THEN 2
     ELSE IF n >= 3 /\ IsWs3(s[n - 2], s[n - 1], s[n]) THEN 3
     ELSE 0

RECURSIVE trim_left(_)
trim_left(s) ==
  IF WsAtStart(s) = 0 THEN s
  ELSE trim_left(SubSeq(s, WsAtStart(s) + 1, Len(s)))

RECURSIVE trim_right(_)
trim_right(s) ==
  IF WsAtEnd(s) = 0 THEN s
  ELSE trim_right(SubSeq(s, 1, Len(s) - WsAtEnd(s)))

trim(s) == trim_right(trim_left(s))

---------------------------------------------------------------------------
(* str::parse::<isize>() and str::parse::<usize>() (from_str_radix, radix
   10): an optional '-' for the signed type only, then decimal digits, each
   step checked against the type's range; any other character, or an empty
   string, gives None. *)
IsDigit(b) == b >= 48 /\ b <= 57

RECURSIVE StripZeros(_)
StripZeros(s) ==
  IF s # <<>> /\ Head(s) = 48 THEN StripZeros(Tail(s)) ELSE s

RECURSIVE LexLeq(_, _)
LexLeq(s, t) ==
  IF s = <<>> THEN TRUE
  ELSE IF Head(s) # Head(t) THEN Head(s) < Head(t)
  ELSE LexLeq(Tail(s), Tail(t))

(* Whether the digit string s denotes a number <= the one limit denotes. *)
InRange(s, limit) ==
  LET z == StripZeros(s)
  IN Len(z) < Len(limit) \/ (Len(z) = Len(limit) /\ LexLeq(z, limit))

RECURSIVE DigitsValue(_, _)
DigitsValue(s, acc) ==
  IF s = <<>> THEN acc ELSE DigitsValue(Tail(s), acc * 10 + (Head(s) - 48))

AllDigits(s) == \A i \in 1..Len(s) : IsDigit(s[i])

parse_isize(s) ==
  IF s = <<>> THEN None
  ELSE IF Head(s) = 45
       THEN IF Tail(s) # <<>> /\ AllDigits(Tail(s)) /\ InRange(Tail(s), ISIZE_MIN_DIGITS)
            THEN Some(0 - DigitsValue(Tail(s), 0))
            ELSE None
       ELSE IF AllDigits(s) /\ InRange(s, ISIZE_MAX_DIGITS)
            THEN Some(DigitsValue(s, 0))
            ELSE None

parse_usize(s) ==
  IF s # <<>> /\ AllDigits(s) /\ InRange(s, USIZE_MAX_DIGITS)
  THEN Some(DigitsValue(s, 0))
  ELSE None

(* num.to_string().len(): the number of characters of the decimal form, the
   sign included. *)
RECURSIVE NatDigits(_)
NatDigits(n) == IF n < 10 THEN 1 ELSE 1 + NatDigits(n \div 10)

to_string_len(num) == IF num < 0 THEN 1 + NatDigits(0 - num) ELSE NatDigits(num)

---------------------------------------------------------------------------
(* enum HeaderVal { List(Vec<String>), Val(String), None } *)
HV_None == [tag |-> "None", val |-> <<>>, list |-> <<>>]
HV_Val(str) == [tag |-> "Val", val |-> str, list |-> <<>>]
HV_List(l) == [tag |-> "List", val |-> <<>>, list |-> l]

(* What one loop iteration of a reader does with the byte it read:
   ctl = "loop" (next iteration), "break" (leave the loop), "read" (the
   header-key reader's second read_byte of the same iteration) or "panic". *)
Ctl(p, ctl) == [p |-> p, ctl |-> ctl]

push(buf, byte) == Append(buf, byte)

(* SPParser *)
SPParser_new == [buf |-> <<>>, max_token_len |-> max_token_len]

SPParser_reset(p) == [p EXCEPT !.buf = <<>>]

SPParser_byte(p, byte) ==
  IF Len(p.buf) >= p.max_token_len THEN Ctl(p, "break")
  ELSE IF byte = SP THEN Ctl(p, "break")
  ELSE Ctl([p EXCEPT !.buf = push(@, byte)], "loop")

(* EOLParser *)
EOLParser_new == [buf |-> <<>>, max_token_len |-> max_token_len, state |-> "Token"]

EOLParser_reset(p) == [p EXCEPT !.buf = <<>>]

EOLParser_byte(p, byte) ==
  IF Len(p.buf) >= p.max_token_len THEN Ctl(p, "break")
  ELSE IF byte = CR
       THEN IF p.state # "Token" THEN Ctl(p, "panic")
            ELSE Ctl([p EXCEPT !.state = "CR"], "loop")
  ELSE IF byte = LF
       THEN IF p.state # "CR" THEN Ctl(p, "panic") ELSE Ctl(p, "break")
  ELSE Ctl([p EXCEPT !.buf = push(@, byte)], "loop")

(* HeaderKeyParser *)
HeaderKeyParser_new == [buf |-> <<>>, max_token_len |-> max_token_len]

HeaderKeyParser_reset(p) == [p EXCEPT !.buf = <<>>]

HeaderKeyParser_byte(p, byte) ==
  IF Len(p.buf) >= p.max_token_len THEN Ctl(p, "break")
  ELSE IF byte = COLON THEN Ctl(p, "break")
  ELSE IF byte = CR THEN Ctl(p, "read")
  ELSE Ctl([p EXCEPT !.buf = push(@, byte)], "loop")

(* mutant: CR LF ends the key only when no key byte was read, a line without
   ':' is rejected *)
HeaderKeyParser_after_cr_strict(p, byte) ==
  IF byte = LF /\ p.buf = <<>> THEN Ctl(p, "break") ELSE Ctl(p, "panic")

(* the byte read inside the CR arm *)
HeaderKeyParser_after_cr(p, byte) ==
  IF byte = LF THEN Ctl(p, "break") ELSE Ctl(p, "panic")

(* HeaderValParser *)
HeaderValParser_new ==
  [buf |-> <<>>, max_token_len |-> max_token_len,
   state |-> "OptionalWhitespace", header_val |-> HV_None]

HeaderValParser_reset(p) ==
  [p EXCEPT !.buf = <<>>, !.header_val = HV_None, !.state = "OptionalWhitespace"]

(* mutant: the new token is put in front of the earlier ones *)
new_val_prepend(header_val, str) ==
  CASE header_val.tag = "None" -> HV_Val(str)
    [] header_val.tag = "Val" -> HV_List(<<str, header_val.val>>)
    [] header_val.tag = "List" -> HV_List(<<str>> \o header_val.list)

(* let new_val = match &self.header_val { ... } *)
new_val(header_val, str) ==
  CASE header_val.tag = "None" -> HV_Val(str)
    [] header_val.tag = "Val" -> HV_List(<<header_val.val, str>>)
    [] header_val.tag = "List" -> HV_List(Append(header_val.list, str))

(* String::from_utf8(self.buf.clone()).unwrap_or(String::new()).as_slice().trim().into_string() *)
buf_to_str(buf) == trim(from_utf8_or_empty(buf))

(* mutant: a space after token bytes is stored in the token *)
HeaderValParser_sp_store(p, byte) ==
  CASE p.state = "OptionalWhitespace" -> Ctl(p, "loop")
    [] p.state = "TokenDelimeter" -> Ctl(p, "loop")
    [] p.state = "CR" -> Ctl(p, "panic")
    [] OTHER -> Ctl([p EXCEPT !.buf = push(@, byte)], "loop")

HeaderValParser_sp(p, byte) ==
  CASE p.state = "OptionalWhitespace" -> Ctl(p, "loop")
    [] p.state = "Token" -> Ctl([p EXCEPT !.state = "TokenDelimeter"], "loop")
    [] p.state = "TokenDelimeter" -> Ctl(p, "loop")
    [] p.state = "CR" -> Ctl(p, "panic")
    [] OTHER -> Ctl([p EXCEPT !.buf = push(@, byte)], "loop")

HeaderValParser_comma(p) ==
  Ctl([p EXCEPT !.state = "TokenDelimeter",
                !.buf = <<>>,
                !.header_val = new_val(p.header_val, buf_to_str(p.buf))], "loop")

HeaderValParser_dquote(p) ==
  CASE p.state = "QuotedString" -> Ctl([p EXCEPT !.state = "Token"], "loop")
    [] p.state = "CR" -> Ctl(p, "panic")
    [] OTHER -> Ctl([p EXCEPT !.state = "QuotedString"], "loop")

HeaderValParser_other(p, byte) ==
  Ctl([p EXCEPT !.state = "Token", !.buf = push(@, byte)], "loop")

HeaderValParser_byte(p, byte) ==
  IF Len(p.buf) >= p.max_token_len THEN Ctl(p, "panic")
  ELSE IF byte = CR
       THEN IF p.state # "Token" THEN Ctl(p, "panic")
            ELSE Ctl([p EXCEPT !.state = "CR"], "loop")
  ELSE IF byte = LF
       THEN IF p.state # "CR" THEN Ctl(p, "panic") ELSE Ctl(p, "break")
  ELSE IF byte = SP THEN HeaderValParser_sp(p, byte)
  ELSE IF byte = COMMA THEN HeaderValParser_comma(p)
  ELSE IF byte = DQUOTE THEN HeaderValParser_dquote(p)
  ELSE HeaderValParser_other(p, byte)

(* after the loop: if self.buf.len() > 0 { ... } ; the value returned is
   the header_val of the result *)
HeaderValParser_finish(p) ==
  IF Len(p.buf) > 0
  THEN [p EXCEPT !.buf = <<>>,
                 !.header_val = new_val(p.header_val, buf_to_str(p.buf))]
  ELSE p

(* BodyParser *)
BodyParser_new(body_len) == [buf |-> <<>>, body_len |-> body_len]

BodyParser_reset(p) == [p EXCEPT !.buf = <<>>]

(* mutant: the loop leaves one byte late *)
BodyParser_byte_late(p, byte) ==
  LET q == [p EXCEPT !.buf = push(@, byte)]
  IN IF Len(q.buf) > q.body_len THEN Ctl(q, "break") ELSE Ctl(q, "loop")

BodyParser_byte(p, byte) ==
  LET q == [p EXCEPT !.buf = push(@, byte)]
  IN IF Len(q.buf) >= q.body_len THEN Ctl(q, "break") ELSE Ctl(q, "loop")

---------------------------------------------------------------------------
(* The vocabulary of read_request_type and read_version. *)
B_GET == <<71, 69, 84>>
B_HEAD == <<72, 69, 65, 68>>
B_POST == <<80, 79, 83, 84>>
B_PUT == <<80, 85, 84>>
B_DELETE == <<68, 69, 76, 69, 84, 69>>
B_TRACE == <<84, 82, 65, 67, 69>>
B_OPTIONS == <<79, 80, 84, 73, 79, 78, 83>>
B_CONNECT == <<67, 79, 78, 78, 69, 67, 84>>
B_PATCH == <<80, 65, 84, 67, 72>>
B_HTTP09 == <<72, 84, 84, 80, 47, 48, 46, 57>>
B_HTTP10 == <<72, 84, 84, 80, 47, 49, 46, 48>>
B_HTTP11 == <<72, 84, 84, 80, 47, 49, 46, 49>>
B_Http20 == <<72, 116, 116, 112, 47, 50, 46, 48>>
B_Content_Length == <<67, 111, 110, 116, 101, 110, 116, 45, 76, 101, 110, 103, 116, 104>>
B_Transfer_Encoding == <<84, 114, 97, 110, 115, 102, 101, 114, 45, 69, 110, 99, 111, 100, 105, 110, 103>>

(* mutant: the match ignores the case of the token *)
read_request_type_nocase(component) ==
  LET up == [i \in 1..Len(component) |->
               IF component[i] >= 97 /\ component[i] <= 122
               THEN component[i] - 32 ELSE component[i]]
  IN CASE up = B_GET -> Some("GET")
       [] up = B_HEAD -> Some("HEAD")
       [] up = B_POST -> Some("POST")
       [] up = B_PUT -> Some("PUT")
       [] up = B_DELETE -> Some("DELETE")
       [] up = B_TRACE -> Some("TRACE")
       [] up = B_OPTIONS -> Some("OPTIONS")
       [] up = B_CONNECT -> Some("CONNECT")
       [] up = B_PATCH -> Some("PATCH")
       [] OTHER -> None

read_request_type(component) ==
  CASE component = B_GET -> Some("GET")
    [] component = B_HEAD -> Some("HEAD")
    [] component = B_POST -> Some("POST")
    [] component = B_PUT -> Some("PUT")
    [] component = B_DELETE -> Some("DELETE")
    [] component = B_TRACE -> Some("TRACE")
    [] component = B_OPTIONS -> Some("OPTIONS")
    [] component = B_CONNECT -> Some("CONNECT")
    [] component = B_PATCH -> Some("PATCH")
    [] OTHER -> None

read_reason(component) == from_utf8(component)

read_resource(component) == from_utf8(component)

read_version(component) ==
  CASE component = B_HTTP09 -> Some("Http09")
    [] component = B_HTTP10 -> Some("Http10")
    [] component = B_HTTP11 -> Some("Http11")
    [] component = B_Http20 -> Some("Http20")
    [] OTHER -> None

read_status_code(component) ==
  LET status_code == parse_isize(from_utf8_or_empty(component))
  IN IF is_none(status_code) THEN None
     ELSE IF to_string_len(unwrap(status_code)) = 3 THEN status_code
     ELSE None

(* Result<T, Error> *)
Ok(x) == [ok |-> TRUE, val |-> x, err |-> ""]
Err(e) == [ok |-> FALSE, val |-> <<>>, err |-> e]

(* mutant: the first check returns the error of the second *)
read_req_line_wrong_error(maybe_method, maybe_resource, maybe_version) ==
  IF is_none(maybe_method) THEN Err("ResourceParseError")
  ELSE IF is_none(maybe_resource) THEN Err("ResourceParseError")
  ELSE IF is_none(maybe_version) THEN Err("VersionParseError")
  ELSE Ok(<<unwrap(maybe_method), unwrap(maybe_resource), unwrap(maybe_version)>>)

(* the checks of read_req_line, made after all three fields were read *)
read_req_line(maybe_method, maybe_resource, maybe_version) ==
  IF is_none(maybe_method) THEN Err("MethodParseError")
  ELSE IF is_none(maybe_resource) THEN Err("ResourceParseError")
  ELSE IF is_none(maybe_version) THEN Err("VersionParseError")
  ELSE Ok(<<unwrap(maybe_method), unwrap(maybe_resource), unwrap(maybe_version)>>)

read_status_line(maybe_version, maybe_code, maybe_reason) ==
  IF is_none(maybe_version) THEN Err("VersionParseError")
  ELSE IF is_none(maybe_code) THEN Err("StatusCodeParseError")
  ELSE IF is_none(maybe_reason) THEN Err("StatusReasonParseError")
  ELSE Ok(<<unwrap(maybe_version), unwrap(maybe_code), unwrap(maybe_reason)>>)

(* HashMap<String, HeaderVal> *)
HashMap_new == [k \in {} |-> HV_None]

(* mutant: an entry already in the map is kept *)
insert_keep_first(headers, key, val) == headers @@ (key :> val)

insert(headers, key, val) == (key :> val) @@ headers
(* s with its ASCII upper-case letters in lower case *)
to_lower(s) == [i \in 1..Len(s) |-> IF s[i] >= 65 /\ s[i] <= 90 THEN s[i] + 32 ELSE s[i]]

(* mutant: the lookup ignores the case of the names *)
get_nocase(headers, key) ==
  IF \E k \in DOMAIN headers : to_lower(k) = to_lower(key)
  THEN Some(headers[CHOOSE k \in DOMAIN headers : to_lower(k) = to_lower(key)])
  ELSE None

get(headers, key) == IF key \in DOMAIN headers THEN Some(headers[key]) ELSE None

(* mutant: the Content-Length lookup also accepts the lower-case name *)
body_len_from_headers_nocase(headers) ==
  LET cl == IF is_none(get(headers, B_Content_Length))
            THEN get(headers, <<99, 111, 110, 116, 101, 110, 116, 45, 108, 101, 110, 103, 116, 104>>)
            ELSE get(headers, B_Content_Length)
  IN IF is_none(cl)
     THEN IF is_none(get(headers, B_Transfer_Encoding)) THEN None
          ELSE Some(transfer_encoding_len)
     ELSE IF unwrap(cl).tag = "Val" THEN parse_usize(unwrap(cl).val)
     ELSE None

(* mutant: Transfer-Encoding is looked up before Content-Length *)
body_len_from_headers_te_first(headers) ==
  LET cl == get(headers, B_Content_Length)
  IN IF ~is_none(get(headers, B_Transfer_Encoding)) THEN Some(transfer_encoding_len)
     ELSE IF is_none(cl) THEN None
     ELSE IF unwrap(cl).tag = "Val" THEN parse_usize(unwrap(cl).val)
     ELSE None

(* The body length the orchestrators settle on once the headers are read:
   None for no body, Some(len) for read_body(stream, len). *)
body_len_from_headers(headers) ==
  LET cl == get(headers, B_Content_Length)
  IN IF is_none(cl)
     THEN IF is_none(get(headers, B_Transfer_Encoding)) THEN None
          ELSE Some(transfer_encoding_len)
     ELSE IF unwrap(cl).tag = "Val" THEN parse_usize(unwrap(cl).val)
     ELSE None

(* mutant: the HEAD test is missing *)
request_body_len_no_head(method, headers) == body_len_from_headers(headers)

request_body_len(method, headers) ==
  IF method = "HEAD" THEN None ELSE body_len_from_headers(headers)

(* mutant: the 1xx range starts after 100 *)
response_body_len_gt100(status_code, headers) ==
  IF status_code = 204 THEN None
  ELSE IF status_code = 304 THEN None
  ELSE IF status_code > 100 /\ status_code < 200 THEN None
  ELSE body_len_from_headers(headers)

response_body_len(status_code, headers) ==
  IF status_code = 204 THEN None
  ELSE IF status_code = 304 THEN None
  ELSE IF status_code >= 100 /\ status_code < 200 THEN None
  ELSE body_len_from_headers(headers)

(* read_body's conversion of the bytes read *)
read_body(bytes) == from_utf8_or_empty(bytes)

---------------------------------------------------------------------------
(* The outcome of read_request / read_response on a connection: still
   running, a returned message, or a panic of the calling thread.  A panic
   carries its message: "Parse error!" (the panic!s of the readers), the
   name of the Error an orchestrator unwrapped, or "IoError" (the unwrap of
   a failed read_byte). *)
Running == [tag |-> "Running", msg |-> "", val |-> <<>>]
Panicked(msg) == [tag |-> "Panic", msg |-> msg, val |-> <<>>]
Returned(tag, val) == [tag |-> tag, msg |-> "", val |-> val]

panic(c, msg) == [c EXCEPT !.pc = "done", !.outcome = Panicked(msg)]

(* return Request { .. } / return Response { .. } *)
return_message(c, body) ==
  LET line == unwrap(c.line).val
  IN IF c.entry = "read_request"
     THEN [c EXCEPT !.pc = "done", !.body = body,
                    !.outcome = Returned("Request",
                       [method |-> line[1], version |-> line[3], resource |-> line[2],
                        headers |-> c.headers, body |-> body])]
     ELSE [c EXCEPT !.pc = "done", !.body = body,
                    !.outcome = Returned("Response",
                       [version |-> line[1], status_code |-> line[2], reason |-> line[3],
                        headers |-> c.headers, body |-> body])]

(* read_headers: the two readers are created, then the loop starts with a
   read of the key reader, which resets it. *)
enter_read_headers(c) ==
  [c EXCEPT !.pc = "header_key",
            !.key_parser = HeaderKeyParser_reset(HeaderKeyParser_new),
            !.val_parser = HeaderValParser_new,
            !.headers = HashMap_new]

(* read_req_line(stream).unwrap() / read_status_line(stream).unwrap() *)
unwrap_line(c, line) ==
  IF line.ok THEN enter_read_headers([c EXCEPT !.line = Some(line)])
  ELSE panic([c EXCEPT !.line = Some(line)], line.err)

(* read_headers has returned Ok(headers): the body of the message *)
after_read_headers(c) ==
  LET line == unwrap(c.line).val
      len == IF c.entry = "read_request"
             THEN request_body_len(line[1], c.headers)
             ELSE response_body_len(line[2], c.headers)
  IN IF is_none(len) THEN return_message(c, None)
     ELSE [c EXCEPT !.pc = "read_body",
                    !.parser = BodyParser_reset(BodyParser_new(unwrap(len)))]

(* One iteration of the SPParser loop; on break the caller's use of the
   returned component and the creation and reset of the next reader. *)
SPParser_step(c, byte) ==
  LET r == SPParser_byte(c.parser, byte)
      component == r.p.buf
  IN IF r.ctl = "loop" THEN [c EXCEPT !.parser = r.p]
     ELSE CASE c.pc = "read_request_type" ->
                 [c EXCEPT !.maybe_method = read_request_type(component),
                           !.pc = "read_resource",
                           !.parser = SPParser_reset(SPParser_new)]
            [] c.pc = "read_resource" ->
                 [c EXCEPT !.maybe_resource = read_resource(component),
                           !.pc = "read_version",
                           !.parser = EOLParser_reset(EOLParser_new)]
            [] c.pc = "read_version" ->
                 [c EXCEPT !.maybe_version = read_version(component),
                           !.pc = "read_status_code",
                           !.parser = SPParser_reset(SPParser_new)]
            [] c.pc = "read_status_code" ->
                 [c EXCEPT !.maybe_code = read_status_code(component),
                           !.pc = "read_reason",
                           !.parser = EOLParser_reset(EOLParser_new)]

EOLParser_step(c, byte) ==
  LET r == EOLParser_byte(c.parser, byte)
      component == r.p.buf
  IN CASE r.ctl = "loop" -> [c EXCEPT !.parser = r.p]
       [] r.ctl = "panic" -> panic(c, "Parse error!")
       [] r.ctl = "break" ->
            IF c.pc = "read_version"
            THEN LET d == [c EXCEPT !.parser = r.p,
                                    !.maybe_version = read_version(component)]
                 IN unwrap_line(d, read_req_line(d.maybe_method, d.maybe_resource,
                                                 d.maybe_version))
            ELSE LET d == [c EXCEPT !.parser = r.p,
                                    !.maybe_reason = read_reason(component)]
                 IN unwrap_line(d, read_status_line(d.maybe_version, d.maybe_code,
                                                    d.maybe_reason))

(* the key reader has returned p.buf: the loop body of read_headers up to
   the next read *)
after_header_key(c, p) ==
  LET key == from_utf8_or_empty(p.buf)
      d == [c EXCEPT !.key_parser = p, !.key = key]
  IN IF Len(key) = 0 THEN after_read_headers(d)
     ELSE [d EXCEPT !.pc = "header_val",
                    !.val_parser = HeaderValParser_reset(c.val_parser)]

HeaderKeyParser_step(c, byte) ==
  LET r == IF c.pc = "header_key" THEN HeaderKeyParser_byte(c.key_parser, byte)
           ELSE HeaderKeyParser_after_cr(c.key_parser, byte)
  IN CASE r.ctl = "loop" -> [c EXCEPT !.key_parser = r.p]
       [] r.ctl = "read" -> [c EXCEPT !.key_parser = r.p, !.pc = "header_key_lf"]
       [] r.ctl = "panic" -> panic(c, "Parse error!")
       [] r.ctl = "break" -> after_header_key(c, r.p)

HeaderValParser_step(c, byte) ==
  LET r == HeaderValParser_byte(c.val_parser, byte)
  IN CASE r.ctl = "loop" -> [c EXCEPT !.val_parser = r.p]
       [] r.ctl = "panic" -> panic(c, "Parse error!")
       [] r.ctl = "break" ->
            LET p == HeaderValParser_finish(r.p)
            IN [c EXCEPT !.val_parser = p,
                         !.headers = insert(c.headers, c.key, p.header_val),
                         !.pc = "header_key",
                         !.key_parser = HeaderKeyParser_reset(c.key_parser)]

BodyParser_step(c, byte) ==
  LET r == BodyParser_byte(c.parser, byte)
  IN IF r.ctl = "loop" THEN [c EXCEPT !.parser = r.p]
     ELSE return_message([c EXCEPT !.parser = r.p], Some(read_body(r.p.buf)))

---------------------------------------------------------------------------
(* The byte source.  The peer's stream is a sequence of segments: a "lit"
   segment is one of a set of byte strings, chosen when the segment starts;
   a "free" segment is any string over an alphabet of at most max bytes,
   chosen byte by byte.  src.i is the next segment to start, src.rem what
   is left of the literal being sent; picks[j] records what segment j has
   sent, consumed every byte read_byte has returned. *)
Lit(alts) == [kind |-> "lit", alts |-> alts, alpha |-> {}, max |-> 0]
Free(alpha, max) == [kind |-> "free", alts |-> {}, alpha |-> alpha, max |-> max]

RECURSIVE Offers(_, _, _)
Offers(segs, src, picks) ==
  IF src.rem # <<>>
  THEN {[byte |-> Head(src.rem), src |-> [src EXCEPT !.rem = Tail(@)], picks |-> picks]}
  ELSE IF src.i > Len(segs) THEN {}
  ELSE LET g == segs[src.i]
           next == [i |-> src.i + 1, rem |-> <<>>]
       IN IF g.kind = "lit"
          THEN UNION {Offers(segs, [next EXCEPT !.rem = a],
                             [picks EXCEPT ![src.i] = a]) : a \in g.alts}
          ELSE {[byte |-> x, src |-> src, picks |-> [picks EXCEPT ![src.i] = Append(@, x)]]
                  : x \in IF Len(picks[src.i]) < g.max THEN g.alpha ELSE {}}
               \cup Offers(segs, next, picks)

---------------------------------------------------------------------------
(* Bounds of the free segments. *)
MaxMethodFree == 3
MaxValFree == 6
MaxCodeFree == 4
MaxBodyFree == 4098
MaxOverFree == 3
MaxKeyFree == 4
MaxReasonFree == 4
MaxLineFree == 4

(* Input bytes and strings. *)
CRLF == <<CR, LF>>
S_SP == <<SP>>
S_FOO == <<70, 79, 79>>
S_get == <<103, 101, 116>>
S_HTTP20 == <<72, 84, 84, 80, 47, 50, 46, 48>>
S_x == <<47, 120>>
S_index == <<47, 105, 110, 100, 101, 120, 46, 104, 116, 109, 108>>
S_Content_Type == <<67, 111, 110, 116, 101, 110, 116, 45, 84, 121, 112, 101>>
S_Host == <<72, 111, 115, 116>>
S_content_length == <<99, 111, 110, 116, 101, 110, 116, 45, 108, 101, 110, 103, 116, 104>>
S_CONTENT_LENGTH == <<67, 79, 78, 84, 69, 78, 84, 45, 76, 69, 78, 71, 84, 72>>
S_K == <<75>>
S_text_plain == <<116, 101, 120, 116, 47, 112, 108, 97, 105, 110>>
S_chunked == <<99, 104, 117, 110, 107, 101, 100>>
S_gzip_chunked == <<103, 122, 105, 112, 44, 32, 99, 104, 117, 110, 107, 101, 100>>
S_a == <<97>>
S_0 == <<48>>
S_1 == <<49>>
S_5 == <<53>>
S_10 == <<49, 48>>
S_12 == <<49, 50>>
S_Hello == <<72, 101, 108, 108, 111>>
S_Hello_world == <<72, 101, 108, 108, 111, 32, 119, 111, 114, 108, 100, 33>>
S_OK == <<79, 75>>
S_VERY_OK == <<86, 69, 82, 89, 32, 79, 75>>

MethodVocabulary ==
  {B_GET, B_HEAD, B_POST, B_PUT, B_DELETE, B_TRACE, B_OPTIONS, B_CONNECT, B_PATCH}

MethodTokens == MethodVocabulary \cup {S_FOO, S_get}

VersionTokens == {B_HTTP09, B_HTTP10, B_HTTP11, B_Http20, S_HTTP20}

CodeTokens ==
  {<<50, 48, 48>>, <<50, 48, 52>>, <<51, 48, 52>>, <<49, 48, 49>>, <<49, 48, 48>>,
   <<49, 57, 57>>, <<52, 48, 52>>, <<50, 48>>, <<50, 48, 48, 48>>, <<48, 50, 48, 48>>,
   <<45, 50, 48>>, <<50, 120, 48>>}

BodyCodeTokens ==
  {<<50, 48, 48>>, <<50, 48, 52>>, <<51, 48, 52>>, <<49, 48, 49>>, <<49, 48, 48>>,
   <<49, 57, 57>>, <<52, 48, 52>>}

(* A header line KEY ":" OWS VALUE CRLF. *)
Line(key, ows, val) == [key |-> key, ows |-> ows, val |-> val]
LineBytes(h) == h.key \o <<COLON>> \o h.ows \o h.val \o CRLF

SingleTokenLines ==
  {Line(S_Content_Type, S_SP, S_text_plain),
   Line(B_Content_Length, S_SP, S_5),
   Line(B_Content_Length, <<>>, S_5),
   Line(B_Content_Length, S_SP, S_10),
   Line(B_Content_Length, S_SP, S_1),
   Line(B_Transfer_Encoding, S_SP, S_chunked),
   Line(S_Host, S_SP, S_a)}

RequestLines ==
  SingleTokenLines \cup
  {Line(B_Content_Length, S_SP, S_0),
   Line(B_Content_Length, S_SP, S_a),
   Line(B_Content_Length, <<>>, S_12),
   Line(B_Transfer_Encoding, S_SP, S_gzip_chunked),
   Line(S_content_length, S_SP, S_5),
   Line(S_CONTENT_LENGTH, S_SP, S_5)}

ResponseLines ==
  {Line(S_Content_Type, S_SP, S_text_plain),
   Line(B_Content_Length, <<>>, S_5),
   Line(B_Content_Length, S_SP, S_0),
   Line(B_Content_Length, S_SP, S_a),
   Line(B_Transfer_Encoding, S_SP, S_chunked)}

Bodies == {<<>>, S_Hello, S_Hello_world}

ValAlphabet == {97, 98, SP, COMMA, DQUOTE, CR, LF}
BodyAlphabet == {120}
KeyAlphabet == {75, COLON, CR, LF, 255}
ReasonAlphabet == {79, CR, LF}
LineAlphabet == {120, SP, CR, LF}

(* The status line up to the reason phrase every "reason_free" stream starts
   with. *)
ReasonPrefix == B_HTTP11 \o S_SP \o <<50, 48, 48>> \o S_SP

(* a run of max_token_len - 1 bytes x, the start of an over-long token *)
LongRun == [i \in 1..(max_token_len - 1) |-> 120]
MethodAlphabet == {71, 69, 84, 101}
CodeAlphabet == {48, 50, 45}

(* The request line and header key every header-value scenario starts with. *)
HVPrefix == B_GET \o S_SP \o S_x \o S_SP \o B_HTTP11 \o CRLF \o S_K \o <<COLON>>

V_quoted_a_b == <<34, 97, 44, 32, 98, 34>>
V_a_b_c == <<97, 44, 32, 98, 44, 32, 99>>
V_a_sp_b == <<97, 32, 98>>
V_a_sp == <<97, 32>>
V_tab_a == <<9, 97>>

ValueExamples == {V_quoted_a_b, V_a_b_c, S_a, V_a_sp_b, V_a_sp, V_tab_a}

(* the line sent after a header line that has no ':' *)
L_K_a == <<75, COLON, SP, 97>>
FollowingLines == {L_K_a, V_a_b_c, S_a, <<>>}

ScenarioIds ==
  {"req_line", "req_msg", "method_free", "hval_free", "hval_examples",
   "status_line", "resp_msg", "code_free", "te_msg", "it_works", "hkey_free", "reason_free",
   "long_resource", "long_key", "long_val", "long_reason", "colon_body", "line_free",
   "no_colon"}

Scenario(id) ==
  CASE id = "req_line" ->
         <<Lit(MethodTokens), Lit({S_SP}), Lit({S_x, S_index}), Lit({S_SP}),
           Lit(VersionTokens), Lit({CRLF \o CRLF})>>
    [] id = "req_msg" ->
         <<Lit({B_GET, B_HEAD, B_POST}), Lit({S_SP}), Lit({S_index}), Lit({S_SP}),
           Lit({B_HTTP11}), Lit({CRLF}),
           Lit({<<>>} \cup {LineBytes(h) : h \in RequestLines}),
           Lit({<<>>} \cup {LineBytes(h) : h \in RequestLines}),
           Lit({CRLF}), Lit(Bodies)>>
    [] id = "method_free" ->
         <<Free(MethodAlphabet, MaxMethodFree),
           Lit({S_SP \o S_x \o S_SP \o B_HTTP11 \o CRLF \o CRLF})>>
    [] id = "hval_free" ->
         <<Lit({HVPrefix}), Free(ValAlphabet, MaxValFree), Lit({CRLF \o CRLF})>>
    [] id = "hval_examples" ->
         <<Lit({HVPrefix}), Lit(ValueExamples), Lit({CRLF \o CRLF})>>
    [] id = "status_line" ->
         <<Lit(VersionTokens), Lit({S_SP}), Lit(CodeTokens), Lit({S_SP}),
           Lit({S_OK, S_VERY_OK}), Lit({CRLF \o CRLF})>>
    [] id = "resp_msg" ->
         <<Lit({B_HTTP11}), Lit({S_SP}), Lit(BodyCodeTokens), Lit({S_SP}),
           Lit({S_OK}), Lit({CRLF}),
           Lit({<<>>} \cup {LineBytes(h) : h \in ResponseLines}),
           Lit({<<>>} \cup {LineBytes(h) : h \in ResponseLines}),
           Lit({CRLF}), Lit(Bodies)>>
    [] id = "code_free" ->
         <<Lit({B_HTTP11 \o S_SP}), Free(CodeAlphabet, MaxCodeFree),
           Lit({S_SP \o S_OK \o CRLF \o CRLF})>>
    [] id = "te_msg" ->
         <<Lit({B_POST}), Lit({S_SP}), Lit({S_x}), Lit({S_SP}),
           Lit({B_HTTP11}), Lit({CRLF}),
           Lit({LineBytes(Line(B_Transfer_Encoding, S_SP, S_chunked))}),
           Lit({<<>>, LineBytes(Line(S_Host, S_SP, S_a))}),
           Lit({CRLF}), Free(BodyAlphabet, MaxBodyFree)>>
    [] id = "it_works" ->
         <<Lit({B_GET}), Lit({S_SP}), Lit({S_index}), Lit({S_SP}), Lit({B_HTTP11}),
           Lit({CRLF \o LineBytes(Line(S_Content_Type, S_SP, S_text_plain))}),
           Lit({LineBytes(Line(B_Content_Length, <<>>, S_5)),
                LineBytes(Line(B_Content_Length, <<>>, S_12))}),
           Lit({LineBytes(Line(B_Transfer_Encoding, S_SP, S_gzip_chunked))}),
           Lit({CRLF}), Lit({S_Hello, S_Hello_world})>>
    [] id = "conc_req" ->
         <<Lit({B_GET, B_POST}), Lit({S_SP \o S_x \o S_SP \o B_HTTP11 \o CRLF}),
           Lit({<<>>, LineBytes(Line(B_Content_Length, <<>>, S_1)),
                LineBytes(Line(S_K, S_SP, <<97, 44, 98>>))}),
           Lit({CRLF}), Lit({<<>>, S_a})>>
    [] id = "eol_twice" ->
         <<Lit({S_a, S_OK}), Lit({CRLF}), Lit({S_a, S_VERY_OK}), Lit({CRLF})>>
    [] id = "hval_twice" ->
         <<Lit({B_GET \o S_SP \o S_x \o S_SP \o B_HTTP11 \o CRLF}),
           Lit({LineBytes(Line(S_K, <<>>, <<97, 44, 32, 98>>)),
                LineBytes(Line(S_K, S_SP, S_a))}),
           Lit({LineBytes(Line(B_Content_Length, <<>>, S_1)),
                LineBytes(Line(S_K, <<>>, S_a))}),
           Lit({CRLF}), Lit({S_a})>>
    [] id = "hkey_free" ->
         <<Lit({B_GET \o S_SP \o S_x \o S_SP \o B_HTTP11 \o CRLF}),
           Free(KeyAlphabet, MaxKeyFree), Lit({CRLF \o CRLF})>>
    [] id = "reason_free" ->
         <<Lit({ReasonPrefix}), Free(ReasonAlphabet, MaxReasonFree),
           Lit({CRLF \o CRLF})>>
    [] id = "long_resource" ->
         <<Lit({B_GET \o S_SP}), Lit({LongRun}), Free(BodyAlphabet, MaxOverFree),
           Lit({S_SP \o B_HTTP11 \o CRLF \o CRLF, B_HTTP11 \o CRLF \o CRLF})>>
    [] id = "long_key" ->
         <<Lit({B_GET \o S_SP \o S_x \o S_SP \o B_HTTP11 \o CRLF}),
           Lit({LongRun}), Free(BodyAlphabet, MaxOverFree),
           Lit({<<COLON>> \o S_a \o CRLF \o CRLF})>>
    [] id = "long_val" ->
         <<Lit({HVPrefix}), Lit({LongRun}), Free(BodyAlphabet, MaxOverFree),
           Lit({CRLF \o CRLF})>>
    [] id = "long_reason" ->
         <<Lit({B_HTTP11 \o S_SP \o <<50, 48, 48>> \o S_SP}),
           Lit({LongRun}), Free(BodyAlphabet, MaxOverFree), Lit({CRLF \o CRLF})>>
    [] id = "line_free" ->
         <<Lit({S_FOO \o S_SP, B_GET \o S_SP \o <<255>> \o S_SP}),
           Free(LineAlphabet, MaxLineFree), Lit({CRLF \o CRLF})>>
    [] id = "no_colon" ->
         <<Lit({B_GET \o S_SP \o S_x \o S_SP \o B_HTTP11 \o CRLF}),
           Lit({S_Host, S_K}), Lit({CRLF}), Lit(FollowingLines),
           Lit({CRLF \o CRLF})>>
    [] id = "colon_body" ->
         <<Lit({B_POST \o S_SP \o S_x \o S_SP \o B_HTTP11 \o CRLF}),
           Lit({LineBytes(Line(B_Content_Length, <<>>, S_1)),
                LineBytes(Line(B_Content_Length, <<>>, S_5))}),
           Lit({<<>>, <<COLON>>, <<255, COLON>>}),
           Lit({<<>>, LineBytes(Line(S_Host, S_SP, S_a))}),
           Lit({CRLF}), Lit({S_Hello})>>

Entry(id) ==
  IF id \in {"status_line", "resp_msg", "code_free", "long_reason", "reason_free"}
  THEN "read_response"
  ELSE "read_request"

---------------------------------------------------------------------------
(* A connection at the call of read_request / read_response: nothing read,
   the first reader (an SPParser in both) created and reset.  key_parser and
   val_parser come to exist in read_headers; until then the fields hold the
   values new() gives them. *)
InitConn(id) ==
  [scn |-> id,
   src |-> [i |-> 1, rem |-> <<>>],
   picks |-> [j \in 1..Len(Scenario(id)) |-> <<>>],
   consumed |-> <<>>,
   entry |-> Entry(id),
   pc |-> IF Entry(id) = "read_request" THEN "read_request_type" ELSE "read_version",
   parser |-> SPParser_reset(SPParser_new),
   key_parser |-> HeaderKeyParser_new,
   val_parser |-> HeaderValParser_new,
   maybe_method |-> None,
   maybe_resource |-> None,
   maybe_version |-> None,
   maybe_code |-> None,
   maybe_reason |-> None,
   line |-> None,
   key |-> <<>>,
   headers |-> HashMap_new,
   body |-> None,
   outcome |-> Running]

Threads == {1}

Init == conns \in [Threads -> {InitConn(id) : id \in ScenarioIds}]

(* stream.read_byte() returning a byte *)
deliver(c, o) ==
  [c EXCEPT !.src = o.src, !.picks = o.picks, !.consumed = Append(@, o.byte)]

ReadByte(c) == Offers(Scenario(c.scn), c.src, c.picks)

UsesSPParser(c) ==
  \/ c.pc \in {"read_request_type", "read_resource", "read_status_code"}
  \/ c.pc = "read_version" /\ c.entry = "read_response"

UsesEOLParser(c) ==
  \/ c.pc = "read_reason"
  \/ c.pc = "read_version" /\ c.entry = "read_request"

(* mutant: the SPParser is one instance shared by the threads, so a read on
   one connection also changes the reader of every other connection that is
   inside an SPParser read *)
SPParserRead_shared(t) ==
  /\ UsesSPParser(conns[t])
  /\ \E o \in ReadByte(conns[t]) :
       LET d == SPParser_step(deliver(conns[t], o), o.byte)
       IN conns' = [u \in DOMAIN conns |->
                      IF u = t THEN d
                      ELSE IF UsesSPParser(conns[u])
                           THEN [conns[u] EXCEPT !.parser =
                                   SPParser_byte(conns[t].parser, o.byte).p]
                           ELSE conns[u]]

SPParserRead(t) ==
  /\ UsesSPParser(conns[t])
  /\ \E o \in ReadByte(conns[t]) :
       conns' = [conns EXCEPT ![t] = SPParser_step(deliver(conns[t], o), o.byte)]

EOLParserRead(t) ==
  /\ UsesEOLParser(conns[t])
  /\ \E o \in ReadByte(conns[t]) :
       conns' = [conns EXCEPT ![t] = EOLParser_step(deliver(conns[t], o), o.byte)]

HeaderKeyParserRead(t) ==
  /\ conns[t].pc \in {"header_key", "header_key_lf"}
  /\ \E o \in ReadByte(conns[t]) :
       conns' = [conns EXCEPT ![t] = HeaderKeyParser_step(deliver(conns[t], o), o.byte)]

HeaderValParserRead(t) ==
  /\ conns[t].pc = "header_val"
  /\ \E o \in ReadByte(conns[t]) :
       conns' = [conns EXCEPT ![t] = HeaderValParser_step(deliver(conns[t], o), o.byte)]

BodyParserRead(t) ==
  /\ conns[t].pc = "read_body"
  /\ \E o \in ReadByte(conns[t]) :
       conns' = [conns EXCEPT ![t] = BodyParser_step(deliver(conns[t], o), o.byte)]

(* stream.read_byte() failing (end of stream: the peer may close at any
   point), and the unwrap() of it in every reader *)
ReadByteFails(t) ==
  /\ conns[t].pc # "done"
  /\ conns' = [conns EXCEPT ![t] = panic(conns[t], "IoError")]

Next ==
  \E t \in Threads :
    \/ SPParserRead(t)
    \/ EOLParserRead(t)
    \/ HeaderKeyParserRead(t)
    \/ HeaderValParserRead(t)
    \/ BodyParserRead(t)
    \/ ReadByteFails(t)

Spec == Init /\ [][Next]_vars

(* Two connections accepted at the same time, each handled by its own
   thread (main.rs: Thread::spawn per incoming stream), each thread calling
   read_request on its own stream; the threads' byte reads interleave in
   every order. *)
ConcThreads == {1, 2}

InitConc == conns \in [ConcThreads -> {InitConn("conc_req")}]

NextConc ==
  \E t \in ConcThreads :
    \/ SPParserRead(t)
    \/ EOLParserRead(t)
    \/ HeaderKeyParserRead(t)
    \/ HeaderValParserRead(t)
    \/ BodyParserRead(t)
    \/ ReadByteFails(t)

SpecConc == InitConc /\ [][NextConc]_vars

(* Reader instances read more than once.  read_headers reads every key and
   every value of a block with one HeaderKeyParser and one HeaderValParser
   ("hval_twice": a request with two header lines).  No caller in the
   repository reads twice with one EOLParser; "eol_twice" is such a caller,
   written against the Parser trait as read_headers is: it creates one
   EOLParser, calls read_req_component on it for a first line and again for
   a second line, and returns the two tokens. *)
EOLParser_twice_step(c, byte) ==
  LET r == EOLParser_byte(c.parser, byte)
  IN CASE r.ctl = "loop" -> [c EXCEPT !.parser = r.p]
       [] r.ctl = "panic" -> panic(c, "Parse error!")
       [] r.ctl = "break" ->
            IF c.pc = "eol_first"
            THEN [c EXCEPT !.key = r.p.buf, !.pc = "eol_second",
                           !.parser = EOLParser_reset(r.p)]
            ELSE [c EXCEPT !.parser = r.p, !.pc = "done",
                           !.outcome = Returned("Lines", <<c.key, r.p.buf>>)]

InitTwice ==
  [InitConn("eol_twice") EXCEPT !.entry = "eol_twice", !.pc = "eol_first",
                                !.parser = EOLParser_reset(EOLParser_new)]

InitReuse == conns \in [Threads -> {InitTwice, InitConn("hval_twice")}]

EOLParserReadTwice(t) ==
  /\ conns[t].pc \in {"eol_first", "eol_second"}
  /\ \E o \in ReadByte(conns[t]) :
       conns' = [conns EXCEPT ![t] = EOLParser_twice_step(deliver(conns[t], o), o.byte)]

NextReuse ==
  \E t \in Threads :
    \/ SPParserRead(t)
    \/ EOLParserRead(t)
    \/ EOLParserReadTwice(t)
    \/ HeaderKeyParserRead(t)
    \/ HeaderValParserRead(t)
    \/ BodyParserRead(t)
    \/ ReadByteFails(t)

SpecReuse == InitReuse /\ [][NextReuse]_vars

---------------------------------------------------------------------------
(* Vocabulary of the claims: the input a connection was given, read off the
   source's record of it and never off the parser. *)
RECURSIVE Concat(_)
Concat(seqs) == IF seqs = <<>> THEN <<>> ELSE Head(seqs) \o Concat(Tail(seqs))

(* the bytes of s before the first occurrence of byte d (all of s if none) *)
RECURSIVE Before(_, _)
Before(s, d) ==
  IF s = <<>> \/ Head(s) = d THEN <<>> ELSE <<Head(s)>> \o Before(Tail(s), d)

HasByte(s, d) == \E i \in 1..Len(s) : s[i] = d

(* The spelling of each method and of each version (spec section 6). *)
MethodSpelling ==
  [GET |-> B_GET, HEAD |-> B_HEAD, POST |-> B_POST, PUT |-> B_PUT,
   DELETE |-> B_DELETE, TRACE |-> B_TRACE, OPTIONS |-> B_OPTIONS,
   CONNECT |-> B_CONNECT, PATCH |-> B_PATCH]

MethodNamed(token) == CHOOSE m \in DOMAIN MethodSpelling : MethodSpelling[m] = token

VersionSpelling ==
  [Http09 |-> B_HTTP09, Http10 |-> B_HTTP10, Http11 |-> B_HTTP11, Http20 |-> B_Http20]

ValidVersionTokens == {VersionSpelling[v] : v \in DOMAIN VersionSpelling}

VersionNamed(token) == CHOOSE v \in DOMAIN VersionSpelling : VersionSpelling[v] = token

(* The header lines a "req_msg" / "resp_msg" connection has been sent so far
   (segments 7 and 8), as Line records. *)
LineOf(bytes) ==
  CHOOSE h \in RequestLines \cup ResponseLines : LineBytes(h) = bytes

SentLines(c) ==
  (IF c.picks[7] = <<>> THEN <<>> ELSE <<LineOf(c.picks[7])>>)
  \o (IF c.picks[8] = <<>> THEN <<>> ELSE <<LineOf(c.picks[8])>>)

(* the header map of distinct single-token lines *)
MapOfLines(lines) ==
  [k \in {lines[i].key : i \in 1..Len(lines)} |->
     HV_Val((CHOOSE h \in {lines[i] : i \in 1..Len(lines)} : h.key = k).val)]

DistinctKeys(lines) ==
  \A i, j \in 1..Len(lines) : i # j => lines[i].key # lines[j].key

(* the Content-Length N of the lines, 0 when there is no such line *)
ContentLengthOf(lines) ==
  IF \E i \in 1..Len(lines) : lines[i].key = B_Content_Length
  THEN DigitsValue((CHOOSE h \in {lines[i] : i \in 1..Len(lines)} :
                      h.key = B_Content_Length).val, 0)
  ELSE 0

---------------------------------------------------------------------------
C1_WellFormed(c) ==
  /\ c.scn = "req_msg"
  /\ c.picks[1] \in MethodVocabulary /\ c.picks[1] # B_HEAD
  /\ \A i \in 1..Len(SentLines(c)) : SentLines(c)[i] \in SingleTokenLines
  /\ DistinctKeys(SentLines(c))
  /\ ContentLengthOf(SentLines(c)) >= 1

C1_Head(c) == Concat(SubSeq(c.picks, 1, 9))

C1_Expected(c) ==
  LET n == ContentLengthOf(SentLines(c))
      h == Len(C1_Head(c))
  IN [method |-> MethodNamed(c.picks[1]),
      version |-> VersionNamed(c.picks[5]),
      resource |-> c.picks[3],
      headers |-> MapOfLines(SentLines(c)),
      body |-> Some(SubSeq(c.consumed, h + 1, h + n))]

(* C1.  A well-formed request with distinct single-token headers and
   Content-Length N >= 1: every field of the returned Request equals the
   corresponding bytes of the input and the body is the N bytes after the
   blank line; the read fails (on the source) only while the stream is
   shorter than the message. *)
C1_EndToEnd ==
  \A t \in DOMAIN conns :
    LET c == conns[t]
    IN (C1_WellFormed(c) /\ c.outcome.tag # "Running") =>
         IF Len(c.consumed) >= Len(C1_Head(c)) + ContentLengthOf(SentLines(c))
         THEN /\ c.outcome = Returned("Request", C1_Expected(c))
              /\ Len(c.consumed) = Len(C1_Head(c)) + ContentLengthOf(SentLines(c))
         ELSE c.outcome = Panicked("IoError")

(* the stream of the spec's end-to-end example *)
C1_Stream ==
  B_GET \o S_SP \o S_index \o S_SP \o B_HTTP11 \o CRLF
  \o S_Content_Type \o <<COLON, SP>> \o S_text_plain \o CRLF
  \o B_Content_Length \o <<COLON, SP>> \o S_5 \o CRLF
  \o CRLF \o S_Hello

C1_Witness ==
  \E t \in DOMAIN conns :
    /\ C1_WellFormed(conns[t])
    /\ conns[t].consumed = C1_Stream
    /\ conns[t].outcome =
         Returned("Request",
           [method |-> "GET", version |-> "Http11", resource |-> S_index,
            headers |-> (S_Content_Type :> HV_Val(S_text_plain))
                        @@ (B_Content_Length :> HV_Val(S_5)),
            body |-> Some(S_Hello)])

---------------------------------------------------------------------------
(* every segment of the connection's stream has been sent and read *)
StreamDone(c) == c.src.i > Len(Scenario(c.scn)) /\ c.src.rem = <<>>

StartsWith(s, prefix) ==
  Len(s) >= Len(prefix) /\ SubSeq(s, 1, Len(prefix)) = prefix

(* C2.  Every parse failure is reported to the caller as one of the seven
   typed errors: read_request and read_response never end in a panic of the
   calling thread. *)
C2_NoAbort ==
  \A t \in DOMAIN conns :
    conns[t].consumed # <<>> => conns[t].outcome.tag # "Panic"

(* C3.  For each of the 9 method tokens M, M /x HTTP/1.1 CRLF CRLF is
   parsed to a Request with method M; and the match is exact: a returned
   Request's method is the one whose spelling is, byte for byte, the first
   token of the stream. *)
C3_Methods ==
  \A t \in DOMAIN conns :
    LET c == conns[t]
    IN /\ (/\ c.scn = "req_line"
           /\ StreamDone(c)
           /\ c.picks[1] \in MethodVocabulary
           /\ c.picks[5] \in ValidVersionTokens)
          => /\ c.outcome.tag = "Request"
             /\ c.outcome.val.method = MethodNamed(c.picks[1])
       /\ c.outcome.tag = "Request"
          => Before(c.consumed, SP) = MethodSpelling[c.outcome.val.method]

C3_Witness ==
  \E t \in DOMAIN conns :
    /\ conns[t].consumed = B_PATCH \o S_SP \o S_x \o S_SP \o B_HTTP11 \o CRLF \o CRLF
    /\ conns[t].outcome.tag = "Request"
    /\ conns[t].outcome.val.method = "PATCH"

HasRequestLine(consumed) ==
  \E res \in {S_x, S_index}, ver \in ValidVersionTokens :
    StartsWith(consumed, Before(consumed, SP) \o S_SP \o res \o S_SP \o ver \o CRLF)

(* C4.  A method token outside the vocabulary, followed by an otherwise
   well-formed request line: read_req_line gives Err(MethodParseError), the
   read fails with that error and no Request is produced. *)
C4_UnknownMethod ==
  \A t \in DOMAIN conns :
    LET c == conns[t]
    IN (c.entry = "read_request" /\ Before(c.consumed, SP) \notin MethodVocabulary)
       => /\ c.outcome.tag # "Request"
          /\ HasRequestLine(c.consumed)
             => /\ c.line = Some(Err("MethodParseError"))
                /\ c.outcome = Panicked("MethodParseError")

C4_Witness ==
  \E t \in DOMAIN conns :
    /\ conns[t].consumed = S_FOO \o S_SP \o S_x \o S_SP \o B_HTTP11 \o CRLF
    /\ conns[t].outcome = Panicked("MethodParseError")

StatusToken(c) ==
  IF c.scn = "code_free" THEN c.picks[2] ELSE c.picks[3]

(* C5.  In the status-line reader "200" parses to 200, and every status
   token of decimal digits whose count is not three fails with
   StatusCodeParseError. *)
C5_StatusDigits ==
  \A t \in DOMAIN conns :
    LET c == conns[t]
        tok == StatusToken(c)
    IN (/\ c.scn \in {"status_line", "code_free"}
        /\ c.line # None
        /\ c.picks[1] \in ValidVersionTokens \cup {B_HTTP11 \o S_SP}
        /\ tok # <<>> /\ AllDigits(tok))
       => /\ tok = <<50, 48, 48>> => (unwrap(c.line).ok /\ unwrap(c.line).val[2] = 200)
          /\ Len(tok) # 3 => unwrap(c.line) = Err("StatusCodeParseError")

---------------------------------------------------------------------------
(* Header values: what a "hval_free" / "hval_examples" connection has read
   after the key K and its colon, and the value V in it (the bytes before
   the first CR). *)
AfterKey(c) ==
  IF Len(c.consumed) > Len(HVPrefix)
  THEN SubSeq(c.consumed, Len(HVPrefix) + 1, Len(c.consumed))
  ELSE <<>>

ValueOf(c) == Before(AfterKey(c), CR)

IsValueScenario(c) == c.scn \in {"hval_free", "hval_examples"}

(* the pieces of s between the occurrences of byte d *)
RECURSIVE SplitOn(_, _)
SplitOn(s, d) ==
  IF ~HasByte(s, d) THEN <<s>>
  ELSE <<Before(s, d)>> \o SplitOn(SubSeq(s, Len(Before(s, d)) + 2, Len(s)), d)

RECURSIVE StripLeadingSP(_)
StripLeadingSP(s) ==
  IF s # <<>> /\ Head(s) = SP THEN StripLeadingSP(Tail(s)) ELSE s

RECURSIVE StripTrailingSP(_)
StripTrailingSP(s) ==
  IF s # <<>> /\ s[Len(s)] = SP THEN StripTrailingSP(SubSeq(s, 1, Len(s) - 1)) ELSE s

StripSP(s) == StripTrailingSP(StripLeadingSP(s))

TokenBytes == {97, 98, 99}

IsToken(s) == s # <<>> /\ \A i \in 1..Len(s) : s[i] \in TokenBytes

IsQuotedContent(s) ==
  /\ s # <<>>
  /\ \A i \in 1..Len(s) : s[i] \in TokenBytes \cup {SP, COMMA}
  /\ s[1] # SP /\ s[Len(s)] # SP

IsQuoted(v) ==
  /\ Len(v) >= 3
  /\ v[1] = DQUOTE /\ v[Len(v)] = DQUOTE
  /\ IsQuotedContent(SubSeq(v, 2, Len(v) - 1))

(* C6.  A double-quote opens a span that lasts until the next double-quote,
   and inside it spaces and commas are content: the value DQUOTE content
   DQUOTE followed by CRLF parses to Single(content). *)
C6_QuotedSpan ==
  \A t \in DOMAIN conns :
    LET c == conns[t]
        v == ValueOf(c)
    IN (IsValueScenario(c) /\ IsQuoted(v))
       => /\ AfterKey(c) = v \o <<CR>> => c.outcome.msg # "Parse error!"
          /\ StartsWith(AfterKey(c), v \o CRLF)
             => (S_K \in DOMAIN c.headers
                 /\ c.headers[S_K] = HV_Val(SubSeq(v, 2, Len(v) - 1)))

IsTokenList(v) ==
  LET ps == SplitOn(v, COMMA)
  IN /\ \A i \in 1..Len(ps) : IsToken(StripSP(ps[i]))
     /\ v[Len(v)] # SP

ExpectedValue(v) ==
  LET ps == SplitOn(v, COMMA)
  IN IF Len(ps) = 1 THEN HV_Val(StripSP(ps[1]))
     ELSE HV_List([i \in 1..Len(ps) |-> StripSP(ps[i])])

(* C7.  A value of k >= 1 non-empty unquoted tokens separated by commas,
   with optional spaces around the commas and before the first token, ended
   by CRLF: the reader returns Single(t1) when k = 1 and Multi([t1..tk]) in
   arrival order when k >= 2. *)
C7_TokenList ==
  \A t \in DOMAIN conns :
    LET c == conns[t]
        v == ValueOf(c)
    IN /\ (IsValueScenario(c)
           /\ \A i \in 1..Len(AfterKey(c)) : AfterKey(c)[i] \in TokenBytes \cup {SP, COMMA})
          => c.outcome.msg # "Parse error!"
       /\ (IsValueScenario(c) /\ v # <<>> /\ IsTokenList(v))
       => /\ AfterKey(c) = v \o <<CR>> => c.outcome.msg # "Parse error!"
          /\ StartsWith(AfterKey(c), v \o CRLF)
             => (S_K \in DOMAIN c.headers /\ c.headers[S_K] = ExpectedValue(v))

C7_Witness ==
  \E t \in DOMAIN conns :
    /\ StartsWith(conns[t].consumed, HVPrefix \o V_a_b_c \o CRLF)
    /\ conns[t].headers = (S_K :> HV_List(<<<<97>>, <<98>>, <<99>>>>))

(* C8.  Every Request returned with method HEAD has body Absent, whatever
   its headers. *)
C8_HeadNoBody ==
  \A t \in DOMAIN conns :
    (conns[t].outcome.tag = "Request" /\ conns[t].outcome.val.method = "HEAD")
    => conns[t].outcome.val.body = None

C8_Witness ==
  \E t \in DOMAIN conns :
    /\ conns[t].outcome.tag = "Request"
    /\ conns[t].outcome.val.method = "HEAD"
    /\ conns[t].outcome.val.headers =
         (B_Content_Length :> HV_Val(S_10)) @@ (B_Transfer_Encoding :> HV_Val(S_chunked))
    /\ conns[t].outcome.val.body = None

NoBodyStatus(code) == code = 204 \/ code = 304 \/ (code >= 100 /\ code <= 199)

(* C9.  Every Response returned with status 204, 304 or 100..199 has body
   Absent, whatever its headers. *)
C9_StatusNoBody ==
  \A t \in DOMAIN conns :
    (conns[t].outcome.tag = "Response" /\ NoBodyStatus(conns[t].outcome.val.status_code))
    => conns[t].outcome.val.body = None

C9_Witness ==
  \E t \in DOMAIN conns :
    /\ conns[t].outcome.tag = "Response"
    /\ conns[t].outcome.val.status_code = 101
    /\ conns[t].outcome.val.headers =
         (B_Content_Length :> HV_Val(S_5)) @@ (B_Transfer_Encoding :> HV_Val(S_chunked))
    /\ conns[t].outcome.val.body = None

(* C10.  A returned request or response whose header map has neither the key
   Content-Length nor the key Transfer-Encoding has body Absent. *)
C10_NoLengthNoBody ==
  \A t \in DOMAIN conns :
    LET o == conns[t].outcome
    IN (/\ o.tag \in {"Request", "Response"}
        /\ B_Content_Length \notin DOMAIN o.val.headers
        /\ B_Transfer_Encoding \notin DOMAIN o.val.headers)
       => o.val.body = None

C10_Witness ==
  \E t \in DOMAIN conns :
    /\ conns[t].outcome.tag = "Request"
    /\ conns[t].outcome.val.method = "POST"
    /\ conns[t].outcome.val.headers =
         (S_content_length :> HV_Val(S_5)) @@ (S_Host :> HV_Val(S_a))
    /\ conns[t].outcome.val.body = None

---------------------------------------------------------------------------
(* The bytes of a "req_msg" / "resp_msg" / "te_msg" stream up to and including the
   blank line, and whether the message read from it may carry a body. *)
HeadOf(c) == Concat(SubSeq(c.picks, 1, 9))

IsMessageScenario(c) == c.scn \in {"req_msg", "resp_msg", "te_msg", "it_works"}

AllowsBody(o) ==
  IF o.tag = "Request" THEN o.val.method # "HEAD"
  ELSE ~NoBodyStatus(o.val.status_code)

(* the N of a header map whose Content-Length is a single value that parses
   as a non-negative integer *)
HasLength(headers) ==
  /\ B_Content_Length \in DOMAIN headers
  /\ headers[B_Content_Length].tag = "Val"
  /\ parse_usize(headers[B_Content_Length].val) # None

LengthOf(headers) == unwrap(parse_usize(headers[B_Content_Length].val))

(* C11.  For every N >= 0: a returned message that allows a body and whose
   Content-Length parses to N has a body of exactly N bytes, and exactly N
   bytes were consumed after the blank line. *)
C11_ExactLength ==
  \A t \in DOMAIN conns :
    LET c == conns[t]
        o == c.outcome
    IN (/\ IsMessageScenario(c)
        /\ o.tag \in {"Request", "Response"}
        /\ AllowsBody(o)
        /\ HasLength(o.val.headers))
       => /\ o.val.body # None
          /\ Len(unwrap(o.val.body)) = LengthOf(o.val.headers)
          /\ Len(c.consumed) = Len(HeadOf(c)) + LengthOf(o.val.headers)

(* C12.  A returned message that allows a body, whose Content-Length is
   absent or does not parse as a non-negative integer and whose header map
   has Transfer-Encoding: the body is the 4096 bytes after the blank line. *)
C12_FallbackWindow ==
  \A t \in DOMAIN conns :
    LET c == conns[t]
        o == c.outcome
        h == Len(HeadOf(c))
    IN (/\ IsMessageScenario(c)
        /\ o.tag \in {"Request", "Response"}
        /\ AllowsBody(o)
        /\ ~HasLength(o.val.headers)
        /\ B_Transfer_Encoding \in DOMAIN o.val.headers)
       => /\ Len(c.consumed) = h + transfer_encoding_len
          /\ o.val.body = Some(SubSeq(c.consumed, h + 1, h + transfer_encoding_len))

(* the stream allows a body: a method other than HEAD, a status other than
   204, 304 and 1xx *)
SentAllowsBody(c) ==
  IF c.entry = "read_request" THEN c.picks[1] # B_HEAD
  ELSE ~NoBodyStatus(DigitsValue(c.picks[3], 0))

(* the stream's two header lines (segments 7 and 8) are a Content-Length
   line with a number N >= 1 and a Transfer-Encoding line, in either order *)
C13_Both(c) ==
  LET ls == SentLines(c)
  IN /\ IsMessageScenario(c)
     /\ SentAllowsBody(c)
     /\ Len(ls) = 2
     /\ \E i, j \in 1..2 :
          /\ ls[i].key = B_Content_Length
          /\ AllDigits(ls[i].val)
          /\ DigitsValue(ls[i].val, 0) >= 1
          /\ ls[j].key = B_Transfer_Encoding

(* C13.  A message with both Content-Length N >= 1 and Transfer-Encoding, in
   either header order: the read ends as soon as N bytes after the blank
   line have arrived, with those N bytes as body; it fails (on the source)
   only while fewer than N have arrived. *)
C13_LengthFirst ==
  \A t \in DOMAIN conns :
    LET c == conns[t]
        n == ContentLengthOf(SentLines(c))
        h == Len(HeadOf(c))
    IN (C13_Both(c) /\ c.outcome.tag # "Running") =>
         IF Len(c.consumed) >= h + n
         THEN /\ c.outcome.tag \in {"Request", "Response"}
              /\ c.outcome.val.body = Some(SubSeq(c.consumed, h + 1, h + n))
              /\ Len(c.consumed) = h + n
         ELSE c.outcome = Panicked("IoError")

(* the request of the test it_works, and a request of "req_msg" with the two
   headers in the other order *)
C13_Witness ==
  \E t \in DOMAIN conns :
    /\ C13_Both(conns[t])
    /\ conns[t].consumed =
         B_GET \o S_SP \o S_index \o S_SP \o B_HTTP11 \o CRLF
         \o S_Content_Type \o <<COLON, SP>> \o S_text_plain \o CRLF
         \o B_Content_Length \o <<COLON>> \o S_5 \o CRLF
         \o B_Transfer_Encoding \o <<COLON, SP>> \o S_gzip_chunked \o CRLF
         \o CRLF \o S_Hello
    /\ conns[t].outcome.tag = "Request"
    /\ conns[t].outcome.val.headers[B_Transfer_Encoding] =
         HV_List(<<<<103, 122, 105, 112>>, S_chunked>>)
    /\ conns[t].outcome.val.body = Some(S_Hello)

C13_WitnessOtherOrder ==
  \E t \in DOMAIN conns :
    /\ C13_Both(conns[t])
    /\ SentLines(conns[t])[1].key = B_Transfer_Encoding
    /\ conns[t].outcome.tag = "Request"
    /\ conns[t].outcome.val.body = Some(S_Hello)

---------------------------------------------------------------------------
(* Over-long tokens: in the "long_*" scenarios segments 2 and 3 are a run of
   bytes x with no delimiter in it, standing where a resource, a header key,
   a header value or a reason phrase is read. *)
LongScenarioIds == {"long_resource", "long_key", "long_val", "long_reason"}

LongToken(c) == c.picks[2] \o c.picks[3]

(* the first max_token_len bytes of such a run *)
Truncated == [i \in 1..max_token_len |-> 120]

(* C14.  When more than max_token_len bytes arrive before the delimiter of a
   token, the read fails: no message is returned, no reader returns the
   token cut to max_token_len bytes, and no following field is read. *)
C14_MaxTokenLen ==
  \A t \in DOMAIN conns :
    LET c == conns[t]
    IN (c.scn \in LongScenarioIds /\ Len(LongToken(c)) > max_token_len)
       => /\ c.outcome.tag \notin {"Request", "Response"}
          /\ c.maybe_resource # Some(Truncated)
          /\ c.maybe_reason # Some(Truncated)
          /\ c.key # Truncated
          /\ Truncated \notin DOMAIN c.headers

(* what the code does with an over-long resource: the token cut to
   max_token_len bytes is returned in a Request *)
C14_TruncatedRequest ==
  \E t \in DOMAIN conns :
    /\ conns[t].scn = "long_resource"
    /\ Len(LongToken(conns[t])) = max_token_len + 1
    /\ conns[t].outcome.tag = "Request"
    /\ conns[t].outcome.val.resource = Truncated

(* and with an over-long header value: the reader fails *)
C14_LongValueFails ==
  \A t \in DOMAIN conns :
    (conns[t].scn = "long_val" /\ Len(LongToken(conns[t])) >= max_token_len
     /\ Len(conns[t].consumed) > Len(HVPrefix) + max_token_len)
    => conns[t].outcome.tag = "Panic"

---------------------------------------------------------------------------
(* The header block of a "req_msg" / "resp_msg" / "te_msg" stream has been
   read: read_headers has returned. *)
HeadersRead(c) ==
  /\ c.scn \in {"req_msg", "resp_msg", "te_msg"}
  /\ c.pc = "read_body" \/ c.outcome.tag \in {"Request", "Response"}

NamesOf(lines) == {lines[i].key : i \in 1..Len(lines)}

(* the last line of the block with the given name *)
LastLine(lines, name) ==
  lines[CHOOSE i \in 1..Len(lines) :
          /\ lines[i].key = name
          /\ \A j \in (i + 1)..Len(lines) : lines[j].key # name]

(* C15.  The header map read_headers returns has one entry for each distinct
   name of the block, holding the value parsed from the last line with that
   name. *)
C15_LastWins ==
  \A t \in DOMAIN conns :
    LET c == conns[t]
        ls == SentLines(c)
    IN HeadersRead(c)
       => /\ DOMAIN c.headers = NamesOf(ls)
          /\ Cardinality(DOMAIN c.headers) = Cardinality(NamesOf(ls))
          /\ \A name \in NamesOf(ls) :
               c.headers[name] = ExpectedValue(LastLine(ls, name).val)

C15_Witness ==
  \E t \in DOMAIN conns :
    /\ HeadersRead(conns[t])
    /\ SentLines(conns[t]) =
         <<Line(B_Content_Length, S_SP, S_5), Line(B_Content_Length, S_SP, S_10)>>
    /\ conns[t].outcome.tag = "Request"
    /\ conns[t].outcome.val.headers = (B_Content_Length :> HV_Val(S_10))

---------------------------------------------------------------------------
(* C16.  Every returned Response has a status code that is a non-negative
   integer written with exactly three decimal digits, and the status token
   it was read from is such a number; any other token (-20, for instance)
   gives StatusCodeParseError. *)
C16_StatusCode ==
  \A t \in DOMAIN conns :
    LET c == conns[t]
        tok == StatusToken(c)
    IN /\ c.outcome.tag = "Response"
          => /\ c.outcome.val.status_code >= 100
             /\ c.outcome.val.status_code <= 999
       /\ (/\ c.scn \in {"status_line", "code_free"}
           /\ c.line # None
           /\ c.picks[1] \in ValidVersionTokens \cup {B_HTTP11 \o S_SP}
           /\ ~(Len(tok) = 3 /\ AllDigits(tok)))
          => unwrap(c.line) = Err("StatusCodeParseError")

(* what the code does with the token -20 *)
C16_NegativeAccepted ==
  \E t \in DOMAIN conns :
    /\ conns[t].consumed = B_HTTP11 \o S_SP \o <<45, 50, 48>> \o S_SP \o S_OK \o CRLF \o CRLF
    /\ conns[t].outcome.tag = "Response"
    /\ conns[t].outcome.val.status_code = 0 - 20

---------------------------------------------------------------------------
(* read_request / read_response run alone on a stream: the reader steps
   applied to the stream's bytes one after the other, nothing in between. *)
StepConn(c, byte) ==
  CASE UsesSPParser(c) -> SPParser_step(c, byte)
    [] UsesEOLParser(c) -> EOLParser_step(c, byte)
    [] c.pc \in {"header_key", "header_key_lf"} -> HeaderKeyParser_step(c, byte)
    [] c.pc = "header_val" -> HeaderValParser_step(c, byte)
    [] c.pc = "read_body" -> BodyParser_step(c, byte)
    [] OTHER -> c

RECURSIVE RunAlone(_, _)
RunAlone(c, bytes) ==
  IF bytes = <<>> \/ c.pc = "done" THEN c
  ELSE RunAlone(StepConn(c, Head(bytes)), Tail(bytes))

(* the parser's side of a connection: everything but the stream *)
ParserView(c) ==
  [pc |-> c.pc, parser |-> c.parser, key_parser |-> c.key_parser,
   val_parser |-> c.val_parser, maybe_method |-> c.maybe_method,
   maybe_resource |-> c.maybe_resource, maybe_version |-> c.maybe_version,
   maybe_code |-> c.maybe_code, maybe_reason |-> c.maybe_reason,
   line |-> c.line, key |-> c.key, headers |-> c.headers, body |-> c.body,
   outcome |-> c.outcome]

(* C17.  Under every interleaving of the byte reads of two connections, each
   connection is at every moment in the state, and ends with the result,
   that read_request run alone reaches on the bytes this connection has
   consumed. *)
C17_NoInterference ==
  \A t \in DOMAIN conns :
    LET c == conns[t]
        alone == RunAlone(InitConn(c.scn), c.consumed)
    IN IF c.outcome = Panicked("IoError")
       THEN ParserView(c) = ParserView(panic(alone, "IoError"))
       ELSE ParserView(c) = ParserView(alone)

(* thread 1 has returned its request while thread 2, on a different stream,
   is in the middle of a header value *)
C17_Witness ==
  /\ DOMAIN conns = ConcThreads
  /\ conns[1].outcome.tag = "Request"
  /\ conns[1].outcome.val.method = "POST"
  /\ conns[1].outcome.val.body = Some(S_a)
  /\ conns[2].picks[1] = B_GET
  /\ conns[2].pc = "header_val"
  /\ conns[2].val_parser.header_val = HV_Val(S_a)

---------------------------------------------------------------------------
(* The entry of the second read on a reader instance: exactly the bytes up
   to the end of the first token's line (EOLParser), up to the colon of the
   second header line (HeaderValParser), have been consumed. *)
AtSecondLine(c) ==
  /\ c.scn = "eol_twice"
  /\ c.pc = "eol_second"
  /\ c.consumed = c.picks[1] \o CRLF

AtSecondValue(c) ==
  /\ c.scn = "hval_twice"
  /\ c.pc = "header_val"
  /\ c.picks[3] # <<>>
  /\ c.consumed = c.picks[1] \o c.picks[2] \o Before(c.picks[3], COLON) \o <<COLON>>

(* C18.  At the entry of a second read on the same instance the reader is
   as after new(): buffer empty, state Token for the line reader and
   OptionalWhitespace with accumulator Absent for the header-value reader;
   and the second read returns what a fresh reader returns on the same
   bytes. *)
C18_ResetOnEntry ==
  \A t \in DOMAIN conns :
    LET c == conns[t]
    IN /\ AtSecondLine(c) => (c.parser.buf = <<>> /\ c.parser.state = "Token")
       /\ AtSecondValue(c)
          => /\ c.val_parser.buf = <<>>
             /\ c.val_parser.state = "OptionalWhitespace"
             /\ c.val_parser.header_val = HV_None
       /\ (c.scn = "eol_twice" /\ StreamDone(c) /\ c.outcome.tag # "Running")
          => c.outcome = Returned("Lines", <<c.picks[1], c.picks[3]>>)

(* the part that holds: the header-value reader is reset at every entry *)
C18_ValueReaderReset ==
  \A t \in DOMAIN conns :
    AtSecondValue(conns[t])
    => /\ conns[t].val_parser.buf = <<>>
       /\ conns[t].val_parser.state = "OptionalWhitespace"
       /\ conns[t].val_parser.header_val = HV_None

C18_SecondValueEntered ==
  \E t \in DOMAIN conns :
    /\ AtSecondValue(conns[t])
    /\ conns[t].headers = (S_K :> HV_List(<<<<97>>, <<98>>>>))

---------------------------------------------------------------------------
(* read_headers has just returned: a message returned without a body (no
   byte is read after the header block), or the body reader entered and
   nothing read by it yet. *)
HeadersJustReturned(c) ==
  \/ c.outcome.tag \in {"Request", "Response"} /\ c.body = None
  \/ c.pc = "read_body" /\ c.parser.buf = <<>>

(* the last bytes of s are a CR LF at the start of a line *)
EndsWithBlankLine(s) ==
  /\ Len(s) >= 3
  /\ SubSeq(s, Len(s) - 2, Len(s)) = <<LF, CR, LF>>

(* C19.  Whenever read_headers returns, the last bytes consumed are the
   CR LF of an empty line. *)
C19_BlankLineOnly ==
  \A t \in DOMAIN conns :
    (conns[t].scn \notin LongScenarioIds /\ HeadersJustReturned(conns[t]))
    => EndsWithBlankLine(conns[t].consumed)

(* what the code does with a line that starts with ':', and with a key that
   is not valid text *)
C19_ColonEndsBlock ==
  \E t \in DOMAIN conns :
    /\ conns[t].consumed = B_GET \o S_SP \o S_x \o S_SP \o B_HTTP11 \o CRLF \o <<COLON>>
    /\ conns[t].outcome.tag = "Request"

C19_InvalidKeyEndsBlock ==
  \E t \in DOMAIN conns :
    /\ conns[t].consumed =
         B_GET \o S_SP \o S_x \o S_SP \o B_HTTP11 \o CRLF \o <<75, 255, COLON>>
    /\ conns[t].outcome.tag = "Request"

---------------------------------------------------------------------------
(* What a "reason_free" connection has read after the status code and its
   space: the bytes the line reader is given. *)
AfterReasonPrefix(c) ==
  IF Len(c.consumed) > Len(ReasonPrefix)
  THEN SubSeq(c.consumed, Len(ReasonPrefix) + 1, Len(c.consumed))
  ELSE <<>>

(* C20.  The line reader returns a token only for a line of the form
   token CR LF: the bytes before the LF that ended the read are the token,
   with no CR in it, followed by one CR. *)
C20_CRThenLF ==
  \A t \in DOMAIN conns :
    LET c == conns[t]
        line == Before(AfterReasonPrefix(c), LF)
    IN (c.scn = "reason_free" /\ c.maybe_reason # None)
       => /\ line # <<>>
          /\ line[Len(line)] = CR
          /\ ~HasByte(SubSeq(line, 1, Len(line) - 1), CR)
          /\ unwrap(c.maybe_reason) = SubSeq(line, 1, Len(line) - 1)

(* what the code does with O CR O LF *)
C20_StrayCRAccepted ==
  \E t \in DOMAIN conns :
    /\ conns[t].consumed = ReasonPrefix \o <<79, CR, 79, LF>> \o CRLF
    /\ conns[t].outcome.tag = "Response"
    /\ conns[t].outcome.val.reason = <<79, 79>>

(* the part that holds: token CR LF is returned as token *)
C20_LineReturned ==
  \A t \in DOMAIN conns :
    LET c == conns[t]
        line == Before(AfterReasonPrefix(c), LF)
    IN (/\ c.scn = "reason_free"
        /\ HasByte(AfterReasonPrefix(c), LF)
        /\ line # <<>> /\ line[Len(line)] = CR
        /\ ~HasByte(SubSeq(line, 1, Len(line) - 1), CR))
       => c.maybe_reason = Some(SubSeq(line, 1, Len(line) - 1))

---------------------------------------------------------------------------
(* the number of occurrences of byte d in s *)
CountOf(s, d) == Cardinality({i \in 1..Len(s) : s[i] = d})

(* the header-value reader has accepted the value V of a "hval_free" /
   "hval_examples" stream: V CR LF was read and the result inserted *)
ValueAccepted(c) ==
  /\ IsValueScenario(c)
  /\ StartsWith(AfterKey(c), ValueOf(c) \o CRLF)
  /\ S_K \in DOMAIN c.headers

(* C21.  For every value the header-value reader accepts, zero commas in the
   value give Single(token) and one or more commas give Multi(list); a value
   with a comma is never returned as Single or Absent. *)
C21_ByCommas ==
  \A t \in DOMAIN conns :
    LET c == conns[t]
    IN ValueAccepted(c)
       => IF CountOf(ValueOf(c), COMMA) = 0
          THEN c.headers[S_K].tag = "Val"
          ELSE c.headers[S_K].tag = "List"

(* the part that holds: values without a double-quote *)
C21_UnquotedByCommas ==
  \A t \in DOMAIN conns :
    LET c == conns[t]
    IN (ValueAccepted(c) /\ ~HasByte(ValueOf(c), DQUOTE))
       => IF CountOf(ValueOf(c), COMMA) = 0
          THEN c.headers[S_K].tag = "Val"
          ELSE /\ c.headers[S_K].tag = "List"
               /\ Len(c.headers[S_K].list) = CountOf(ValueOf(c), COMMA) + 1

(* what the code does with the values a,"" and "" *)
C21_CommaGivesSingle ==
  \E t \in DOMAIN conns :
    /\ ValueAccepted(conns[t])
    /\ ValueOf(conns[t]) = <<97, COMMA, DQUOTE, DQUOTE>>
    /\ conns[t].headers[S_K] = HV_Val(S_a)

C21_EmptyQuotesGiveAbsent ==
  \E t \in DOMAIN conns :
    /\ ValueAccepted(conns[t])
    /\ ValueOf(conns[t]) = <<DQUOTE, DQUOTE>>
    /\ conns[t].headers[S_K] = HV_None

---------------------------------------------------------------------------
(* The place of a connection in the protocol order: the three fields of the
   first line, the header block, the body, the end. *)
Rank(c) ==
  CASE c.pc \in {"read_request_type"} -> 1
    [] c.pc = "read_version" /\ c.entry = "read_response" -> 1
    [] c.pc \in {"read_resource", "read_status_code"} -> 2
    [] c.pc = "read_version" /\ c.entry = "read_request" -> 3
    [] c.pc = "read_reason" -> 3
    [] c.pc \in {"header_key", "header_key_lf", "header_val"} -> 4
    [] c.pc = "read_body" -> 5
    [] OTHER -> 6

(* the body reader has been entered: the connection's reader is a BodyParser *)
BodyEntered(c) == "body_len" \in DOMAIN c.parser

(* what was consumed before the first byte the body reader read *)
BeforeBody(c) == SubSeq(c.consumed, 1, Len(c.consumed) - Len(c.parser.buf))

(* the length the resolver gives for the first line and header map of c *)
DecidedLength(c) ==
  IF c.entry = "read_request"
  THEN request_body_len(unwrap(c.line).val[1], c.headers)
  ELSE response_body_len(unwrap(c.line).val[2], c.headers)

(* C22.  The body read is the last step: whenever the body reader has been
   entered, the first line was read, the blank line ending the header block
   was consumed before any body byte, and the length read is the one decided
   from the header map. *)
C22_BodyLast ==
  \A t \in DOMAIN conns :
    LET c == conns[t]
    IN BodyEntered(c)
       => /\ c.line # None /\ unwrap(c.line).ok
          /\ EndsWithBlankLine(BeforeBody(c))
          /\ DecidedLength(c) = Some(c.parser.body_len)

(* the parts that hold: the steps follow the protocol order, one reader
   after the other and never back, the header map does not change once the
   body reader is entered, and the length is the decided one *)
C22_FieldOrder ==
  [][\A t \in DOMAIN conns :
       LET c == conns[t]
           d == conns'[t]
       IN /\ Rank(d) >= Rank(c)
          /\ Rank(d) \in {Rank(c), Rank(c) + 1, 6}
          /\ Rank(c) >= 5 => d.headers = c.headers]_vars

C22_LengthFromHeaders ==
  \A t \in DOMAIN conns :
    BodyEntered(conns[t])
    => /\ conns[t].line # None /\ unwrap(conns[t].line).ok
       /\ DecidedLength(conns[t]) = Some(conns[t].parser.body_len)

(* what the code does when a line starting with ':' follows Content-Length:1:
   the next byte is read as the body and no blank line has been consumed *)
C22_BodyBeforeBlankLine ==
  \E t \in DOMAIN conns :
    /\ conns[t].consumed =
         B_POST \o S_SP \o S_x \o S_SP \o B_HTTP11 \o CRLF
         \o LineBytes(Line(B_Content_Length, <<>>, S_1)) \o <<COLON, 72>>
    /\ conns[t].outcome.tag = "Request"
    /\ conns[t].body = Some(<<72>>)

---------------------------------------------------------------------------
(* Termination.  The peer sends a finite stream and the source fails at its
   end, not before: read_byte() returns the next byte while there is one and
   Err at end of stream, where the reader's unwrap() panics.  The thread that
   handles the connection keeps running (a blocking read returns), which is
   the weak fairness of its steps. *)

(* mutant: the reader ignores the failed read and goes round its loop again
   (match read_byte() { Err(_) => continue, .. }) *)
ReadByteAtEnd_retry(t) ==
  /\ conns[t].pc # "done"
  /\ ReadByte(conns[t]) = {}
  /\ conns' = conns

ReadByteAtEnd(t) ==
  /\ conns[t].pc # "done"
  /\ ReadByte(conns[t]) = {}
  /\ conns' = [conns EXCEPT ![t] = panic(conns[t], "IoError")]

NextLive ==
  \E t \in Threads :
    \/ SPParserRead(t)
    \/ EOLParserRead(t)
    \/ HeaderKeyParserRead(t)
    \/ HeaderValParserRead(t)
    \/ BodyParserRead(t)
    \/ ReadByteAtEnd(t)

(* the streams of Spec without the 4096-byte ones and the free header value *)
LiveScenarioIds ==
  {"req_line", "req_msg", "method_free", "hval_examples", "status_line", "resp_msg",
   "code_free", "it_works", "hkey_free", "reason_free", "colon_body"}

InitLive == conns \in [Threads -> {InitConn(id) : id \in LiveScenarioIds}]

SpecLive == InitLive /\ [][NextLive]_vars /\ WF_vars(NextLive)

(* C23.  Every step of a read consumes exactly one byte of the stream or is
   the failed read at its end, and every read terminates, with a message or
   a failure. *)
C23_Terminates ==
  /\ [][\A t \in DOMAIN conns :
          conns'[t] # conns[t]
          => \/ Len(conns'[t].consumed) = Len(conns[t].consumed) + 1
             \/ /\ conns'[t].consumed = conns[t].consumed
                /\ conns'[t].outcome = Panicked("IoError")]_vars
  /\ <>(\A t \in DOMAIN conns :
          conns[t].pc = "done" /\ conns[t].outcome.tag # "Running")

(* a read that ended at the end of the stream with a failure, one that ended
   with a message before the end of the stream *)
C23_Witness ==
  \E t \in DOMAIN conns :
    /\ conns[t].scn = "req_msg"
    /\ StreamDone(conns[t])
    /\ conns[t].outcome = Panicked("IoError")
    /\ conns[t].pc = "done"

C23_MessageBeforeEnd ==
  \E t \in DOMAIN conns :
    /\ conns[t].outcome.tag = "Request"
    /\ ~StreamDone(conns[t])

---------------------------------------------------------------------------
(* A "line_free" stream starts with an unrecognised method token and its
   space, or with GET and a resource that is not valid text and its space;
   any bytes follow.  The error of the first failing field: *)
FirstFailure(c) ==
  IF StartsWith(c.picks[1], S_FOO) THEN "MethodParseError" ELSE "ResourceParseError"

FailingFieldRead(c) ==
  /\ c.scn = "line_free"
  /\ c.picks[1] # <<>>
  /\ Len(c.consumed) >= Len(c.picks[1])

(* C24.  Once the unrecognised method (or the invalid resource) has been
   read, the read ends with MethodParseError (ResourceParseError) whatever
   bytes follow, the end of the stream included. *)
C24_FirstFailure ==
  \A t \in DOMAIN conns :
    LET c == conns[t]
    IN (FailingFieldRead(c) /\ c.outcome.tag # "Running")
       => c.outcome = Panicked(FirstFailure(c))

(* the part that holds: when all three readers of the line return, the error
   is the one of the first failing field *)
C24_TypedWhenAllRead ==
  \A t \in DOMAIN conns :
    LET c == conns[t]
    IN (FailingFieldRead(c) /\ c.line # None)
       => /\ ~unwrap(c.line).ok
          /\ unwrap(c.line).err = FirstFailure(c)
          /\ c.outcome = Panicked(FirstFailure(c))

(* what the code does when a stray LF follows: `FOO x LF` and
   `GET 0xFF LF` both end in the readers' own panic *)
C24_StrayLFAfterMethod ==
  \E t \in DOMAIN conns :
    /\ conns[t].consumed = S_FOO \o S_SP \o <<120, SP, LF>>
    /\ conns[t].outcome = Panicked("Parse error!")

C24_StrayLFAfterResource ==
  \E t \in DOMAIN conns :
    /\ conns[t].consumed = B_GET \o S_SP \o <<255>> \o S_SP \o <<LF>>
    /\ conns[t].outcome = Panicked("Parse error!")

C24_TypedErrorReached ==
  \E t \in DOMAIN conns :
    /\ FailingFieldRead(conns[t])
    /\ conns[t].outcome = Panicked("MethodParseError")

---------------------------------------------------------------------------
(* a message was returned with its body resolved as Absent *)
ReturnedNoBody(c) ==
  /\ c.outcome.tag \in {"Request", "Response"}
  /\ c.outcome.val.body = None

(* s holds an empty line (CR LF CR LF) and at least one byte after it *)
ReadPastBlankLine(s) ==
  \E i \in 1..(Len(s) - 4) : SubSeq(s, i, i + 3) = CRLF \o CRLF

(* C25.  After a read that returned a message with body Absent, the stream
   position is immediately after the LF of the blank line ending the header
   block: the last bytes consumed are that line, and nothing after it has
   been consumed. *)
C25_NoReadAhead ==
  \A t \in DOMAIN conns :
    ReturnedNoBody(conns[t])
    => /\ EndsWithBlankLine(conns[t].consumed)
       /\ ~ReadPastBlankLine(conns[t].consumed)

(* the part that holds: no byte after the header block is consumed; on the
   well-formed messages the position is the end of the blank line, with the
   body bytes of the stream still to come *)
C25_NothingAfterBlock ==
  \A t \in DOMAIN conns :
    LET c == conns[t]
    IN ReturnedNoBody(c)
       => /\ ~ReadPastBlankLine(c.consumed)
          /\ IsMessageScenario(c)
             => /\ c.consumed = HeadOf(c)
                /\ c.src = [i |-> 10, rem |-> <<>>]
                /\ c.picks[10] = <<>>

(* what the code does: a HEAD request left at the end of its blank line, and
   a request returned at a ':' with its header lines and blank line unread *)
C25_HeadLeftAtBlankLine ==
  \E t \in DOMAIN conns :
    /\ conns[t].scn = "req_msg"
    /\ ReturnedNoBody(conns[t])
    /\ conns[t].picks[1] = B_HEAD
    /\ B_Content_Length \in DOMAIN conns[t].headers
    /\ conns[t].consumed = HeadOf(conns[t])

C25_LeftBeforeBlankLine ==
  \E t \in DOMAIN conns :
    /\ conns[t].scn = "hkey_free"
    /\ ReturnedNoBody(conns[t])
    /\ conns[t].picks[2] = <<COLON>>
    /\ conns[t].consumed = conns[t].picks[1] \o <<COLON>>

---------------------------------------------------------------------------
(* s without its spaces *)
RemoveSP(s) == SelectSeq(s, LAMBDA x : x # SP)

(* a value of token bytes, spaces and commas: no quotes *)
IsUnquoted(v) ==
  /\ v # <<>>
  /\ \A i \in 1..Len(v) : v[i] \in TokenBytes \cup {SP, COMMA}

(* the elements of an unquoted value: its pieces between commas, each
   without its spaces *)
JoinedValue(v) ==
  LET ps == SplitOn(v, COMMA)
      qs == [i \in 1..Len(ps) |-> RemoveSP(ps[i])]
  IN IF Len(qs) = 1 THEN HV_Val(qs[1]) ELSE HV_List(qs)

(* C26.  In an unquoted value a space never ends an element and is never
   stored: the value is accepted when its last byte is a token byte, and its
   elements are the pieces between commas with every space removed (`a b`
   gives Single("ab")); a value whose last byte is a space fails at the CR. *)
C26_SpacesDiscarded ==
  \A t \in DOMAIN conns :
    LET c == conns[t]
        v == ValueOf(c)
    IN (IsValueScenario(c) /\ IsUnquoted(v))
       => /\ (v[Len(v)] \in TokenBytes /\ StartsWith(AfterKey(c), v \o CRLF))
             => /\ S_K \in DOMAIN c.headers
                /\ c.headers[S_K] = JoinedValue(v)
          /\ (v[Len(v)] = SP /\ AfterKey(c) = v \o <<CR>>)
             => c.outcome = Panicked("Parse error!")

C26_Witness ==
  \E t \in DOMAIN conns :
    /\ IsValueScenario(conns[t])
    /\ AfterKey(conns[t]) = V_a_sp_b \o CRLF
    /\ conns[t].headers = (S_K :> HV_Val(<<97, 98>>))

C26_TrailingSpaceFails ==
  \E t \in DOMAIN conns :
    /\ IsValueScenario(conns[t])
    /\ AfterKey(conns[t]) = V_a_sp \o <<CR>>
    /\ conns[t].outcome = Panicked("Parse error!")

---------------------------------------------------------------------------
(* A "no_colon" stream: the request line, a header line without ':' (the
   bytes picks[2], then CR LF), a following line picks[4], its CR LF and a
   blank line. *)
NoColonLineRead(c) ==
  /\ c.scn = "no_colon"
  /\ StartsWith(c.consumed, c.picks[1] \o c.picks[2] \o CRLF)
  /\ c.picks[2] # <<>>

FollowingLineRead(c) ==
  /\ NoColonLineRead(c)
  /\ c.picks[4] # <<>>
  /\ StartsWith(c.consumed, c.picks[1] \o c.picks[2] \o CRLF \o c.picks[4] \o CRLF)

(* C27.  No read ends with MalformedHeaderLineError.  A header line without
   ':' is not rejected: at its CR LF its bytes are the key and the value
   reader is entered; every byte of the following line up to its CR LF is
   read by the value reader, and the line is that key's value; the blank
   line then ends the block with that one header. *)
C27_NoColonIsKey ==
  \A t \in DOMAIN conns :
    LET c == conns[t]
    IN /\ c.outcome.msg # "MalformedHeaderLineError"
       /\ c.line # None => unwrap(c.line).err # "MalformedHeaderLineError"
       /\ (NoColonLineRead(c) /\ c.consumed = c.picks[1] \o c.picks[2] \o CRLF)
          => /\ c.outcome.msg \in {"", "IoError"}
             /\ c.outcome = Running => c.pc = "header_val"
             /\ c.key = c.picks[2]
       /\ (/\ NoColonLineRead(c)
           /\ Len(c.consumed) < Len(c.picks[1] \o c.picks[2] \o CRLF \o c.picks[4] \o CRLF)
           /\ c.outcome = Running)
          => c.pc = "header_val" /\ c.key = c.picks[2]
       /\ FollowingLineRead(c)
          => /\ c.outcome.msg \in {"", "IoError"}
             /\ c.headers = (c.picks[2] :> JoinedValue(c.picks[4]))
       /\ (FollowingLineRead(c) /\ StreamDone(c))
          => /\ c.outcome.tag = "Request"
             /\ c.outcome.val.headers = (c.picks[2] :> JoinedValue(c.picks[4]))

C27_Witness ==
  \E t \in DOMAIN conns :
    /\ FollowingLineRead(conns[t])
    /\ conns[t].picks[2] = S_Host
    /\ conns[t].picks[4] = L_K_a
    /\ conns[t].outcome.tag = "Request"
    /\ conns[t].outcome.val.headers = (S_Host :> HV_Val(<<75, COLON, 97>>))

(* when the following line is the blank line, the value reader reads its CR
   and panics *)
C27_BlankFollowingLine ==
  \E t \in DOMAIN conns :
    /\ NoColonLineRead(conns[t])
    /\ conns[t].picks[4] = <<>>
    /\ conns[t].consumed = conns[t].picks[1] \o conns[t].picks[2] \o CRLF \o <<CR>>
    /\ conns[t].outcome = Panicked("Parse error!")

---------------------------------------------------------------------------
(* a name that is Content-Length or Transfer-Encoding but for its case *)
OtherSpelling(key) ==
  /\ key \notin {B_Content_Length, B_Transfer_Encoding}
  /\ to_lower(key) \in {to_lower(B_Content_Length), to_lower(B_Transfer_Encoding)}

(* a "req_msg" stream, not HEAD, whose header lines carry a length header in
   another spelling and none in the exact one, read to the end of its blank
   line *)
MisspelledLengthRead(c) ==
  LET lines == SentLines(c)
  IN /\ c.scn = "req_msg"
     /\ c.picks[1] # B_HEAD
     /\ \E i \in 1..Len(lines) : OtherSpelling(lines[i].key)
     /\ \A i \in 1..Len(lines) :
          lines[i].key \notin {B_Content_Length, B_Transfer_Encoding}
     /\ c.picks[9] = CRLF
     /\ Len(c.consumed) >= Len(HeadOf(c))

(* C28.  The length headers are looked up by exact name on keys stored as
   received: a request that is not HEAD and carries `content-length: 5` (or
   `CONTENT-LENGTH: 5`) and no exactly spelled length header is returned at
   its blank line with that key in its map, body Absent, and the bytes after
   the blank line unread. *)
C28_ExactName ==
  \A t \in DOMAIN conns :
    LET c == conns[t]
        lines == SentLines(c)
    IN MisspelledLengthRead(c)
       => /\ c.outcome.tag = "Request"
          /\ c.outcome.val.body = None
          /\ \A i \in 1..Len(lines) : lines[i].key \in DOMAIN c.outcome.val.headers
          /\ B_Content_Length \notin DOMAIN c.outcome.val.headers
          /\ c.consumed = HeadOf(c)
          /\ c.picks[10] = <<>>

C28_Witness ==
  \E t \in DOMAIN conns :
    /\ MisspelledLengthRead(conns[t])
    /\ conns[t].picks[1] = B_POST
    /\ conns[t].outcome.tag = "Request"
    /\ conns[t].outcome.val.headers = (S_content_length :> HV_Val(S_5))
    /\ conns[t].outcome.val.body = None
    /\ ~StreamDone(conns[t])

C28_UpperCaseWitness ==
  \E t \in DOMAIN conns :
    /\ MisspelledLengthRead(conns[t])
    /\ conns[t].outcome.tag = "Request"
    /\ conns[t].outcome.val.headers = (S_CONTENT_LENGTH :> HV_Val(S_5))
    /\ conns[t].outcome.val.body = None

===========================================================================
